---- MODULE Spec2Model ----
(***************************************************************************)
(* Model of the chunked recognition pipeline of app_n2/processing.py:      *)
(* perform_asr_and_generate_srt (segmenting, per-chunk recognition with    *)
(* retry, stitching, failure threshold, writing the document),             *)
(* perform_asr_with_retry and adjust_srt_timestamps, and of its            *)
(* translation job: translate_srt_to_chinese, openai_chat_with_retry,      *)
(* split_and_translate and translate_small_chunk, and of the jobs of       *)
(* app_n2/main.py that run the four steps and clean up after them.         *)
(*                                                                         *)
(* Text is modelled structurally.  A string is the sequence of its lines   *)
(* as str.split('\n') returns them (so the empty string is one empty       *)
(* line).  A line is a record: its kind k, its decimal digits d (for a     *)
(* line on which str.isdigit() holds), the parts of a time-range line      *)
(* (what split("-->") returns, each part a timestamp), its text v, and     *)
(* pad, which tells whether the line carries leading or trailing white     *)
(* space.  A timestamp is the sequence of the fields that split(':') and   *)
(* split(',') cut it into, each field a sequence of decimal digits.        *)
(***************************************************************************)
EXTENDS Integers, Sequences, FiniteSets, TLC

VARIABLES
    CHUNK_LENGTH_MS,   \* config.py: chunk length of this process (ms)
    MAX_RETRIES,       \* config.py: attempts per chunk
    RETRY_DELAY,       \* config.py: seconds slept between attempts
    duration_ms,       \* len(audio)
    pc,                \* position of perform_asr_and_generate_srt
    i,                 \* loop variable of the chunk loop
    start_ms, end_ms,  \* slice bounds of the chunk being processed
    attempt,           \* loop variable of perform_asr_with_retry
    asr_log,           \* outcome of each request of the current call
    sleeps,            \* time.sleep arguments of the current call
    results,           \* list of stitched fragments
    current_srt_index, \* running index offset
    failed_chunks,     \* list of failed chunk numbers (1-based)
    srt_file,          \* content of the output file, or Absent
    chunk_log,         \* history: one record per completed loop iteration
    calls,             \* history: arguments and result of each stitch call
    TRANSLATION_CHUNK_LINES, \* config.py: configured lines per batch
    input_srt,         \* the file at input_srt_path
    out_file,          \* content of the file at output_srt_path, or Absent
    srt_lines,         \* lines = file.readlines() of translate_srt_to_chinese
    step,              \* loop variable of the batch loop
    chunk_content,     \* text of the batch being translated
    chat_log,          \* error of each failed request of the current call
    requests,          \* user content of each request sent for the batch
    batch_log,         \* history: one record per completed batch
    upload,            \* main.py: per job, the entry point and the upload
    files,             \* the named files of TEMP_DIR and OUTPUT_DIR
    chunk_wavs,        \* the files data/chunk_<i>.wav
    at,                \* per job, its position in main.py and processing.py
    chunk,             \* per job, i, attempt and the failed chunks so far
    events,            \* history: per job, the steps begun and ended
    returned,          \* per job, what the caller got
    posted,            \* history: the audio of every recognition request
    cleaned            \* history: other jobs' files the final cleanup took

vars == <<CHUNK_LENGTH_MS, MAX_RETRIES, RETRY_DELAY, duration_ms, pc, i,
          start_ms, end_ms, attempt, asr_log, sleeps, results,
          current_srt_index, failed_chunks, srt_file, chunk_log, calls,
          TRANSLATION_CHUNK_LINES, input_srt, out_file, srt_lines, step,
          chunk_content, chat_log, requests, batch_log, upload, files,
          chunk_wavs, at, chunk, events, returned, posted, cleaned>>

\* the variables of the translation job alone
tvars == <<TRANSLATION_CHUNK_LINES, input_srt, out_file, srt_lines, step,
           chunk_content, chat_log, requests, batch_log>>

\* the variables of the recognition job alone
avars == <<CHUNK_LENGTH_MS, duration_ms, i, start_ms, end_ms, asr_log,
           results, current_srt_index, failed_chunks, srt_file, chunk_log,
           calls>>

\* the variables of the jobs of main.py alone
pvars == <<upload, files, chunk_wavs, at, chunk, events, returned, posted,
           cleaned>>

\* no job of main.py: its variables rest
PipelineIdle ==
    /\ upload = <<>>
    /\ files = <<>>
    /\ chunk_wavs = <<>>
    /\ at = <<>>
    /\ chunk = <<>>
    /\ events = <<>>
    /\ returned = <<>>
    /\ posted = {}
    /\ cleaned = {}

----------------------------------------------------------------------------
(* Bounds of the model. *)

MaxChunks == 3          \* jobs have at most this many chunks
MaxSmallLen == 2        \* chunk lengths 1..MaxSmallLen are enumerated
MaxSmallDur == 5        \* durations 0..MaxSmallDur are enumerated
MaxCues == 3            \* cues per recognised fragment
MaxRetriesCfg == 3      \* MAX_RETRIES ranges over 0..MaxRetriesCfg
MaxCalls == 2           \* stitch calls chained by the stitcher driver
MaxDocLines == 3        \* lines of the enumerated subtitle documents
MaxSmallCap == 2        \* TRANSLATION_CHUNK_LINES 1..MaxSmallCap for them

----------------------------------------------------------------------------
(* Numbers and their decimal rendering. *)

Max(a, b) == IF a >= b THEN a ELSE b
Min(a, b) == IF a <= b THEN a ELSE b

RECURSIVE Digits(_)
\* str(n) for n >= 0
Digits(n) == IF n < 10 THEN <<n>> ELSE Append(Digits(n \div 10), n % 10)

RECURSIVE ToInt(_)
\* int(s) for a non-empty string of decimal digits
ToInt(d) == IF Len(d) = 1 THEN d[1]
            ELSE 10 * ToInt(SubSeq(d, 1, Len(d) - 1)) + d[Len(d)]

RECURSIVE ZeroPad(_, _)
\* format(n, "0w"): left-pad with zeros to at least w characters
ZeroPad(d, w) == IF Len(d) < w THEN ZeroPad(<<0>> \o d, w) ELSE d

----------------------------------------------------------------------------
(* Lines. *)

Line(k, d, parts, v, pad) ==
    [k |-> k, d |-> d, parts |-> parts, v |-> v, pad |-> pad]

EmptyLine == Line("blank", <<>>, <<>>, "", FALSE)
NumLine(d) == Line("num", d, <<>>, "", FALSE)
TextLine(v) == Line("text", <<>>, <<>>, v, FALSE)
TimeLine(a, b) == Line("time", <<>>, <<a, b>>, "", FALSE)
Padded(line) == [line EXCEPT !.pad = TRUE]

\* str.strip() of one line
Strip(line) == [line EXCEPT !.pad = FALSE]

\* str.isdigit(): decimal digit strings, and strings of other Unicode
\* digits (kind "sup", such as a superscript two) that int() rejects
IsDigit(line) == line.k \in {"num", "sup"}

\* "-->" in line
HasArrow(line) == line.k = "time"

\* the empty string, which is the only falsy string
EmptyString == <<EmptyLine>>

RECURSIVE DropLeadingBlank(_)
DropLeadingBlank(ls) ==
    IF ls = <<>> THEN <<>>
    ELSE IF ls[1].k = "blank" THEN DropLeadingBlank(Tail(ls))
    ELSE ls

RECURSIVE DropTrailingBlank(_)
DropTrailingBlank(ls) ==
    IF ls = <<>> THEN <<>>
    ELSE IF ls[Len(ls)].k = "blank"
         THEN DropTrailingBlank(SubSeq(ls, 1, Len(ls) - 1))
    ELSE ls

\* srt_content.strip().split('\n')
StripSplit(content) ==
    LET core == DropTrailingBlank(DropLeadingBlank(content))
    IN  IF core = <<>> THEN <<EmptyLine>>
        ELSE [j \in 1..Len(core) |->
                 IF j = 1 \/ j = Len(core) THEN Strip(core[j]) ELSE core[j]]

----------------------------------------------------------------------------
(* Timestamps. *)

Raised == [raised |-> TRUE]

\* time_to_ms: the two unpackings need exactly three ':' fields and two ','
\* fields, and int() needs every field to be a non-empty digit string
time_to_ms(ts) ==
    IF Len(ts) # 4 \/ \E f \in 1..Len(ts) : ts[f] = <<>>
    THEN Raised
    ELSE [raised |-> FALSE,
          ms |-> ToInt(ts[1]) * 3600000 + ToInt(ts[2]) * 60000
                 + ToInt(ts[3]) * 1000 + ToInt(ts[4])]

ms_to_time(ms) ==
    LET hours == ms \div 3600000
        r1 == ms % 3600000
        minutes == r1 \div 60000
        r2 == r1 % 60000
        seconds == r2 \div 1000
        milliseconds == r2 % 1000
    IN  <<ZeroPad(Digits(hours), 2), ZeroPad(Digits(minutes), 2),
          ZeroPad(Digits(seconds), 2), ZeroPad(Digits(milliseconds), 3)>>

\* Values n below 4096 for which the double-precision computation
\* (n / 1000) * 1000 is below n, so that int() of it is n - 1.  Whole
\* seconds are exact.
InexactMs ==
    {1001, 1003, 1005, 1007, 1009, 1011, 1013, 1015, 1017, 1019, 1021, 1023,
     2002, 2006, 2010, 2014, 2018, 2022, 2026, 2030, 2034, 2038, 2042, 2046,
     4004, 4007, 4012, 4015, 4020, 4023, 4028, 4031, 4036, 4039, 4044, 4047,
     4052, 4055, 4060, 4063, 4068, 4071, 4076, 4079, 4084, 4087, 4092, 4095}

\* int(time_offset_seconds * 1000), where time_offset_seconds is the float
\* n / 1000 that the chunk loop passes for a slice starting at n ms
OffsetMs(n) == IF n \in InexactMs THEN n - 1 ELSE n

----------------------------------------------------------------------------
(* adjust_srt_timestamps.  The float time_offset_seconds is represented by *)
(* the number n of milliseconds with time_offset_seconds = n / 1000.       *)

\* the time-range line of a cue: both unpackings and both time_to_ms calls
AdjustTimeLine(time_line, time_offset_seconds) ==
    IF Len(time_line.parts) # 2 THEN Raised
    ELSE LET start == time_to_ms(time_line.parts[1])
             end == time_to_ms(time_line.parts[2])
         IN  IF start.raised \/ end.raised THEN Raised
             ELSE [raised |-> FALSE,
                   line |-> TimeLine(
                       ms_to_time(start.ms + OffsetMs(time_offset_seconds)),
                       ms_to_time(end.ms + OffsetMs(time_offset_seconds)))]

RECURSIVE AdjustLoop(_, _, _, _, _, _)
\* the while loop, from line_idx (1-based here) to the end of lines
AdjustLoop(lines, line_idx, current_index_offset, time_offset_seconds, adjusted_lines, max_index_in_chunk) ==
    IF line_idx > Len(lines)
    THEN [raised |-> FALSE, lines |-> adjusted_lines,
          max |-> max_index_in_chunk]
    ELSE
    LET line == Strip(lines[line_idx]) IN
    IF IsDigit(line) THEN
        IF line.k # "num" THEN Raised      \* int(line) raises ValueError
        ELSE
        LET original_index == ToInt(line.d)
            numbered == Append(adjusted_lines,
                            NumLine(Digits(current_index_offset + original_index)))
            newmax == Max(max_index_in_chunk, original_index)
        IN  IF line_idx + 1 <= Len(lines)
            THEN LET time_line == Strip(lines[line_idx + 1]) IN
                 IF HasArrow(time_line)
                 THEN LET t == AdjustTimeLine(time_line, time_offset_seconds)
                      IN  IF t.raised THEN Raised
                          ELSE AdjustLoop(lines, line_idx + 2,
                                   current_index_offset, time_offset_seconds,
                                   Append(numbered, t.line), newmax)
                 ELSE AdjustLoop(lines, line_idx + 2, current_index_offset,
                          time_offset_seconds, Append(numbered, time_line),
                          newmax)
            ELSE AdjustLoop(lines, line_idx + 1, current_index_offset,
                     time_offset_seconds, numbered, newmax)
    ELSE IF line.k # "blank"
    THEN AdjustLoop(lines, line_idx + 1, current_index_offset,
             time_offset_seconds, Append(adjusted_lines, line),
             max_index_in_chunk)
    ELSE AdjustLoop(lines, line_idx + 1, current_index_offset,
             time_offset_seconds, Append(adjusted_lines, EmptyLine),
             max_index_in_chunk)

\* a stitcher that returns the fragment's maximum without the offset
adjust_srt_timestamps_max_only(srt_content, current_index_offset, time_offset_seconds) ==
    LET r == AdjustLoop(StripSplit(srt_content), 1, current_index_offset,
                        time_offset_seconds, <<>>, 0)
    IN  IF r.raised THEN Raised
        ELSE [raised |-> FALSE,
              text |-> Append(r.lines, EmptyLine),
              index |-> r.max]

\* Returns [raised |-> TRUE] when the call raises, and otherwise the text
\* "\n".join(adjusted_lines + [""]) and the new index offset.
adjust_srt_timestamps(srt_content, current_index_offset, time_offset_seconds) ==
    LET r == AdjustLoop(StripSplit(srt_content), 1, current_index_offset,
                        time_offset_seconds, <<>>, 0)
    IN  IF r.raised THEN Raised
        ELSE [raised |-> FALSE,
              text |-> Append(r.lines, EmptyLine),
              index |-> current_index_offset + r.max]

----------------------------------------------------------------------------
(* Fragments returned by the recognition service. *)

\* "HH:MM:SS,mmm"
Stamp(h, m, sec, ms) ==
    <<ZeroPad(Digits(h), 2), ZeroPad(Digits(m), 2), ZeroPad(Digits(sec), 2),
      ZeroPad(Digits(ms), 3)>>

DigitText == 7          \* the number spoken in a digits-only text line

Styles == {"plain", "late", "digits", "padded"}

\* time range of cue j of a fragment
CueTimes(j, style) ==
    IF style = "late"
    THEN <<Stamp(0, 59, 59, 990 + 2 * j), Stamp(0, 59, 59, 991 + 2 * j)>>
    ELSE <<Stamp(0, 0, j, 0), Stamp(0, 0, j + 1, 0)>>

\* text lines of a cue
CueText(style) ==
    IF style = "digits" THEN <<NumLine(Digits(DigitText))>>
    ELSE IF style = "padded" THEN <<Padded(TextLine("x")), TextLine("y")>>
    ELSE <<TextLine("x")>>

Cue(j, style) ==
    [seq |-> j, times |-> CueTimes(j, style), text |-> CueText(style)]

\* the lines of one cue and the blank line that ends it
CueLines(c) ==
    <<NumLine(Digits(c.seq)), TimeLine(c.times[1], c.times[2])>>
        \o c.text \o <<EmptyLine>>

RECURSIVE CuesText(_, _, _)
\* the serialized cues j..k, then what follows the last newline
CuesText(j, k, style) ==
    IF j > k THEN <<EmptyLine>>
    ELSE CueLines(Cue(j, style)) \o CuesText(j + 1, k, style)

\* a valid subtitle document of k cues numbered 1..k
Fragment(k, style) == CuesText(1, k, style)

\* the valid documents, by number of cues and style
FragmentTable == [k \in 1..MaxCues, st \in Styles |-> Fragment(k, st)]

WellFormed == {FragmentTable[k, st] : k \in 1..MaxCues, st \in Styles}

NoCues == {EmptyString,
           <<Padded(EmptyLine), EmptyLine>>,
           <<Padded(TextLine("x")), EmptyLine>>,
           <<TextLine("x"), Padded(TextLine("y")), EmptyLine>>}

BadStamp == <<<<0, 0>>, <<0, 0>>, <<0, 1>>>>   \* "00:00:01": no ',' field

TwoArrows ==
    <<NumLine(<<1>>),
      Line("time", <<>>, <<Stamp(0, 0, 1, 0), Stamp(0, 0, 2, 0),
                           Stamp(0, 0, 3, 0)>>, "", FALSE),
      TextLine("x"), EmptyLine>>

Malformed ==
    {<<NumLine(<<1>>), TimeLine(BadStamp, BadStamp), TextLine("x"), EmptyLine>>,
     TwoArrows,
     <<Line("sup", <<>>, <<>>, "", FALSE), TextLine("x"), EmptyLine>>,
     <<NumLine(<<1>>), NumLine(<<9>>), TextLine("x"), EmptyLine>>,
     <<NumLine(<<0, 2>>), TimeLine(<<<<0>>, <<0>>, <<1>>, <<5>>>>,
                                   Stamp(0, 0, 75, 0)), EmptyLine>>}

\* one cue that lasts 1001 ms, from 00:00:00,000 to 00:00:01,001
WholeChunk ==
    <<NumLine(<<1>>), TimeLine(Stamp(0, 0, 0, 0), Stamp(0, 0, 1, 1)),
      TextLine("x"), EmptyLine, EmptyLine>>

\* one cue whose text is the line "007"
LeadingZeros ==
    <<NumLine(<<1>>), TimeLine(Stamp(0, 0, 1, 0), Stamp(0, 0, 2, 0)),
      NumLine(<<0, 0, 7>>), EmptyLine, EmptyLine>>

Fragments ==
    WellFormed \cup NoCues \cup Malformed \cup {WholeChunk, LeadingZeros}

\* the fragment texts that the recognition service returns in the job model
Responses ==
    {EmptyString, Fragment(1, "plain"), Fragment(MaxCues, "plain"),
     Fragment(1, "digits"), TwoArrows, WholeChunk}

----------------------------------------------------------------------------
(* Writing text to a file opened for writing or appending. *)

Absent == <<>>          \* the file does not exist

\* string concatenation; the piece after the last newline of a joins the
\* piece before the first newline of b
Concat(a, b) ==
    LET last == a[Len(a)] IN
    IF last = EmptyLine THEN SubSeq(a, 1, Len(a) - 1) \o b
    ELSE IF b[1] = EmptyLine THEN a \o Tail(b)
    ELSE SubSeq(a, 1, Len(a) - 1)
         \o <<Line("joined", <<>>, <<>>, "", FALSE)>> \o Tail(b)

RECURSIVE WriteAllNewestFirst(_, _)
\* a loop that writes the newest fragment first
WriteAllNewestFirst(content, rs) ==
    IF rs = <<>> THEN content
    ELSE WriteAllNewestFirst(Concat(content, rs[Len(rs)]),
                             SubSeq(rs, 1, Len(rs) - 1))

\* a document left at the output path by an earlier run
OldSrt == Fragment(1, "late")

RECURSIVE WriteAll(_, _)
\* for chunk_result in results: srt_file.write(chunk_result)
WriteAll(content, rs) ==
    IF rs = <<>> THEN content
    ELSE WriteAll(Concat(content, rs[1]), Tail(rs))

----------------------------------------------------------------------------
(* Jobs. *)

DEFAULT_RETRY_DELAY == 5
DEFAULT_TRANSLATION_CHUNK_LINES == 100

ChunkLengths == (1..MaxSmallLen) \cup {1001, 15000}
Durations == (0..MaxSmallDur) \cup {2003, 35000}

\* duration and chunk length of a job; the long chunk lengths are paired
\* with the long durations only
Jobs == {job \in Durations \X ChunkLengths :
            /\ job[1] <= MaxChunks * job[2]
            /\ (job[2] > MaxSmallLen) = (job[1] > MaxSmallDur)}

\* a division that rounds down instead of up
total_chunks_floor == duration_ms \div CHUNK_LENGTH_MS

total_chunks == (duration_ms + CHUNK_LENGTH_MS - 1) \div CHUNK_LENGTH_MS

\* a threshold that already fails the job at exactly half
ThresholdAtLeastHalf(failed, total) == 2 * failed >= total

\* len(failed_chunks) > total_chunks * 0.5
ThresholdExceeded(failed, total) == 2 * failed > total

\* one completed iteration of the chunk loop
LogEntry(from, to, outcome, cause, fragment, ret) ==
    [i |-> i, start_ms |-> from, end_ms |-> to,
     outcome |-> outcome, cause |-> cause, fragment |-> fragment,
     index_before |-> current_srt_index, ret |-> ret]

\* no translation job: its variables rest
TranslationIdle ==
    /\ TRANSLATION_CHUNK_LINES = DEFAULT_TRANSLATION_CHUNK_LINES
    /\ input_srt = Absent
    /\ out_file = Absent
    /\ srt_lines = <<>>
    /\ step = 0
    /\ chunk_content = <<>>
    /\ chat_log = <<>>
    /\ requests = <<>>
    /\ batch_log = <<>>

JobInit ==
    /\ TranslationIdle
    /\ PipelineIdle
    /\ \E job \in Jobs : duration_ms = job[1] /\ CHUNK_LENGTH_MS = job[2]
    /\ MAX_RETRIES \in 0..MaxRetriesCfg
    /\ RETRY_DELAY = DEFAULT_RETRY_DELAY
    /\ pc = "loop"
    /\ i = 0
    /\ start_ms = 0
    /\ end_ms = 0
    /\ attempt = 0
    /\ asr_log = <<>>
    /\ sleeps = <<>>
    /\ results = <<>>
    /\ current_srt_index = 0
    /\ failed_chunks = <<>>
    /\ srt_file \in {Absent, OldSrt}
    /\ chunk_log = <<>>
    /\ calls = <<>>

Init == JobInit

\* a loop body whose except clause lets an exhausted recognition escape
ChunkAborts(from, to, cause, fragment) ==
    /\ failed_chunks' = Append(failed_chunks, i + 1)
    /\ chunk_log' = Append(chunk_log,
                            LogEntry(from, to, "failed", cause, fragment, Raised))
    /\ i' = i + 1
    /\ pc' = IF cause = "asr" THEN "Failed" ELSE "loop"
    /\ UNCHANGED <<results, current_srt_index>>

\* a failure that also forgets the running index offset
ChunkFailedResetsIndex(from, to, cause, fragment) ==
    /\ failed_chunks' = Append(failed_chunks, i + 1)
    /\ chunk_log' = Append(chunk_log,
                            LogEntry(from, to, "failed", cause, fragment, Raised))
    /\ i' = i + 1
    /\ pc' = "loop"
    /\ current_srt_index' = 0
    /\ UNCHANGED results

\* the except/else branches of the loop body: the chunk is recorded as failed
ChunkFailed(from, to, cause, fragment) ==
    /\ failed_chunks' = Append(failed_chunks, i + 1)
    /\ chunk_log' = Append(chunk_log,
                            LogEntry(from, to, "failed", cause, fragment, Raised))
    /\ i' = i + 1
    /\ pc' = "loop"
    /\ UNCHANGED <<results, current_srt_index>>

\* Start of one loop iteration: the slice is taken and exported.
BeginChunk(export_ok) ==
    /\ pc = "loop"
    /\ i < total_chunks
    /\ start_ms' = i * CHUNK_LENGTH_MS
    /\ end_ms' = Min(i * CHUNK_LENGTH_MS + CHUNK_LENGTH_MS, duration_ms)
    /\ attempt' = 0
    /\ asr_log' = <<>>
    /\ sleeps' = <<>>
    /\ IF export_ok
       THEN /\ pc' = "asr"
            /\ UNCHANGED <<i, results, current_srt_index, failed_chunks,
                           chunk_log>>
       ELSE ChunkFailed(start_ms', end_ms', "export", EmptyString)
    /\ UNCHANGED tvars
    /\ UNCHANGED pvars
    /\ UNCHANGED <<CHUNK_LENGTH_MS, MAX_RETRIES, RETRY_DELAY, duration_ms,
                   srt_file, calls>>

\* perform_asr_with_retry with MAX_RETRIES <= 0: the loop body never runs
\* and the function returns None.
AsrNoAttempt ==
    /\ pc = "asr"
    /\ attempt >= MAX_RETRIES
    /\ ChunkFailed(start_ms, end_ms, "none", EmptyString)
    /\ UNCHANGED tvars
    /\ UNCHANGED pvars
    /\ UNCHANGED <<CHUNK_LENGTH_MS, MAX_RETRIES, RETRY_DELAY, duration_ms,
                   start_ms, end_ms, attempt, asr_log, sleeps, srt_file,
                   calls>>

\* One attempt that gets HTTP 200 with fragment text srt_content: the call
\* returns it, and the loop body stitches it or records the chunk as failed.
AsrSuccess(srt_content) ==
    /\ pc = "asr"
    /\ attempt < MAX_RETRIES
    /\ asr_log' = Append(asr_log, "200")
    /\ IF srt_content # EmptyString
       THEN LET ret == adjust_srt_timestamps(srt_content, current_srt_index,
                                             start_ms)
            IN  /\ calls' = Append(calls,
                       [content |-> srt_content, index |-> current_srt_index,
                        time |-> start_ms, ret |-> ret])
                /\ IF ret.raised
                   THEN ChunkFailed(start_ms, end_ms, "stitch", srt_content)
                   ELSE /\ results' = Append(results, ret.text)
                        /\ current_srt_index' = ret.index
                        /\ chunk_log' = Append(chunk_log,
                               LogEntry(start_ms, end_ms, "ok", "ok", srt_content,
                                        ret))
                        /\ i' = i + 1
                        /\ pc' = "loop"
                        /\ UNCHANGED failed_chunks
       ELSE /\ ChunkFailed(start_ms, end_ms, "empty", srt_content)
            /\ UNCHANGED calls
    /\ UNCHANGED tvars
    /\ UNCHANGED pvars
    /\ UNCHANGED <<CHUNK_LENGTH_MS, MAX_RETRIES, RETRY_DELAY, duration_ms,
                   start_ms, end_ms, attempt, sleeps, srt_file>>

\* a retry loop that waits before it looks whether the attempt was the last
AsrFailureWaitsFirst(kind) ==
    /\ pc = "asr"
    /\ attempt < MAX_RETRIES
    /\ kind \in {"http", "net"}
    /\ asr_log' = Append(asr_log, "failed")
    /\ sleeps' = Append(sleeps, RETRY_DELAY)
    /\ IF attempt = MAX_RETRIES - 1
       THEN /\ ChunkFailed(start_ms, end_ms, "asr", EmptyString)
            /\ UNCHANGED attempt
       ELSE /\ attempt' = attempt + 1
            /\ UNCHANGED <<pc, i, results, current_srt_index, failed_chunks,
                           chunk_log>>
    /\ UNCHANGED tvars
    /\ UNCHANGED pvars
    /\ UNCHANGED <<CHUNK_LENGTH_MS, MAX_RETRIES, RETRY_DELAY, duration_ms,
                   start_ms, end_ms, srt_file, calls>>

\* One attempt that ends in a non-200 status ("http") or in a
\* requests.exceptions.RequestException ("net"); both branches log a warning
\* and differ in nothing else, and the request is logged as failed.
AsrFailure(kind) ==
    /\ pc = "asr"
    /\ attempt < MAX_RETRIES
    /\ kind \in {"http", "net"}
    /\ asr_log' = Append(asr_log, "failed")
    /\ IF attempt = MAX_RETRIES - 1
       THEN /\ ChunkFailed(start_ms, end_ms, "asr", EmptyString)
            /\ UNCHANGED <<attempt, sleeps>>
       ELSE /\ sleeps' = Append(sleeps, RETRY_DELAY)
            /\ attempt' = attempt + 1
            /\ UNCHANGED <<pc, i, results, current_srt_index, failed_chunks,
                           chunk_log>>
    /\ UNCHANGED tvars
    /\ UNCHANGED pvars
    /\ UNCHANGED <<CHUNK_LENGTH_MS, MAX_RETRIES, RETRY_DELAY, duration_ms,
                   start_ms, end_ms, srt_file, calls>>

\* a job that opens the output file before it checks the threshold
FinishWritesFirst ==
    /\ pc = "loop"
    /\ i >= total_chunks
    /\ srt_file' = WriteAll(EmptyString, results)
    /\ pc' = IF ThresholdExceeded(Len(failed_chunks), total_chunks)
             THEN "Failed" ELSE "Done"
    /\ UNCHANGED tvars
    /\ UNCHANGED pvars
    /\ UNCHANGED <<CHUNK_LENGTH_MS, MAX_RETRIES, RETRY_DELAY, duration_ms, i,
                   start_ms, end_ms, attempt, asr_log, sleeps, results,
                   current_srt_index, failed_chunks, chunk_log, calls>>

\* After the loop: the threshold check, then the document is written.
Finish ==
    /\ pc = "loop"
    /\ i >= total_chunks
    /\ IF ThresholdExceeded(Len(failed_chunks), total_chunks)
       THEN /\ pc' = "Failed"
            /\ UNCHANGED srt_file
       ELSE /\ pc' = "Done"
            /\ srt_file' = WriteAll(EmptyString, results)
    /\ UNCHANGED tvars
    /\ UNCHANGED pvars
    /\ UNCHANGED <<CHUNK_LENGTH_MS, MAX_RETRIES, RETRY_DELAY, duration_ms, i,
                   start_ms, end_ms, attempt, asr_log, sleeps, results,
                   current_srt_index, failed_chunks, chunk_log, calls>>

Next ==
    \/ \E export_ok \in BOOLEAN : BeginChunk(export_ok)
    \/ AsrNoAttempt
    \/ \E srt_content \in Responses : AsrSuccess(srt_content)
    \/ \E kind \in {"http", "net"} : AsrFailure(kind)
    \/ Finish

Spec == Init /\ [][Next]_vars

----------------------------------------------------------------------------
(* The stitcher on its own: adjust_srt_timestamps applied to one fragment  *)
(* after another, each call starting from the index offset that the call   *)
(* before it returned, as the chunk loop does.  start_ms holds the time    *)
(* offset of the calls, in milliseconds.                                   *)

\* index offset and time offset (in milliseconds; 1.001 s is inexact) of the
\* first call
StitchStarts == {<<0, 0>>, <<0, 1001>>, <<5, 10000>>}

StitchInit ==
    /\ TranslationIdle
    /\ PipelineIdle
    /\ CHUNK_LENGTH_MS = 15000
    /\ MAX_RETRIES = 3
    /\ RETRY_DELAY = DEFAULT_RETRY_DELAY
    /\ duration_ms = 0
    /\ pc = "stitcher"
    /\ i = 0
    /\ \E st \in StitchStarts : current_srt_index = st[1] /\ start_ms = st[2]
    /\ end_ms = 0
    /\ attempt = 0
    /\ asr_log = <<>>
    /\ sleeps = <<>>
    /\ results = <<>>
    /\ failed_chunks = <<>>
    /\ srt_file = Absent
    /\ chunk_log = <<>>
    /\ calls = <<>>

Stitch(srt_content) ==
    /\ pc = "stitcher"
    /\ Len(calls) < MaxCalls
    /\ LET ret == adjust_srt_timestamps(srt_content, current_srt_index,
                                        start_ms)
       IN  /\ calls' = Append(calls,
                  [content |-> srt_content, index |-> current_srt_index,
                   time |-> start_ms, ret |-> ret])
           /\ current_srt_index' =
                  IF ret.raised THEN current_srt_index ELSE ret.index
    /\ UNCHANGED tvars
    /\ UNCHANGED pvars
    /\ UNCHANGED <<CHUNK_LENGTH_MS, MAX_RETRIES, RETRY_DELAY, duration_ms, pc,
                   i, start_ms, end_ms, attempt, asr_log, sleeps, results,
                   failed_chunks, srt_file, chunk_log>>

StitchNext == \E srt_content \in Fragments : Stitch(srt_content)

SpecStitch == StitchInit /\ [][StitchNext]_vars

----------------------------------------------------------------------------
(* The translation job: translate_srt_to_chinese, openai_chat_with_retry,  *)
(* split_and_translate and translate_small_chunk.                          *)
(*                                                                         *)
(* Here a string is the sequence of the pieces that str.split('\n') cuts   *)
(* it into; a piece records the line of the document it comes from (id),   *)
(* its number of characters (len), whether it is white space only (blank), *)
(* whether it was translated (zh) and, for the failure annotation, the     *)
(* batch number it names (ann).  A line of file.readlines() is a piece     *)
(* together with nl, which tells whether the line ends in a newline (only  *)
(* the last line of a file may lack it).                                   *)

MAX_INPUT_CHARS == 2000   \* longest user_input sent as one request
MAX_GROUP_LINES == 50     \* lines of one group of split_and_translate
MAX_GROUP_CHARS == 1000   \* characters of one group of split_and_translate
MAX_BATCH_LINES == 80     \* ceiling of the lines of a batch
MAX_WAIT == 60            \* longest wait of the exponential backoff
SMALL_ATTEMPTS == 3       \* requests of translate_small_chunk
SMALL_DELAY == 3          \* seconds between them

Piece(id, len, blank) ==
    [id |-> id, len |-> len, blank |-> blank, zh |-> FALSE, ann |-> 0]

NoText == Piece(0, 0, TRUE)      \* the empty piece; <<NoText>> is ""

\* the value None, which message.content may be
None == <<Piece(-1, 0, TRUE)>>

\* "# 翻译失败的块 {n}"
Annotation(n) ==
    [id |-> 0, len |-> 9 + Len(Digits(n)), blank |-> FALSE, zh |-> FALSE,
     ann |-> n]

FileLine(id, len, blank, nl) ==
    [id |-> id, len |-> len, blank |-> blank, nl |-> nl]

\* ''.join(chunk_lines), for lines that all but the last end in a newline
JoinLines(chunk_lines) ==
    IF chunk_lines = <<>> THEN <<NoText>>
    ELSE [j \in 1..Len(chunk_lines) |->
              Piece(chunk_lines[j].id, chunk_lines[j].len,
                    chunk_lines[j].blank)]
         \o (IF chunk_lines[Len(chunk_lines)].nl THEN <<NoText>> ELSE <<>>)

RECURSIVE SumLen(_)
SumLen(text) ==
    IF text = <<>> THEN 0 ELSE text[1].len + SumLen(Tail(text))

\* len(text): the characters of the pieces and the newlines between them
TextLen(text) == SumLen(text) + Len(text) - 1

\* not text.strip()
IsBlankText(text) == \A j \in 1..Len(text) : text[j].blank

\* text.endswith('\n')
EndsWithNewline(text) == Len(text) > 1 /\ text[Len(text)].len = 0

\* the number of newline-terminated lines of a text that ends in a newline
\* (or is empty)
LineCount(text) == Len(text) - 1

\* x + y for two pieces that stand on one line
Glue(x, y) ==
    IF x.len = 0 THEN y
    ELSE IF y.len = 0 THEN x
    ELSE [id |-> x.id, len |-> x.len + y.len, blank |-> x.blank /\ y.blank,
          zh |-> x.zh \/ y.zh, ann |-> x.ann]

\* a + b for two strings
Cat(a, b) ==
    SubSeq(a, 1, Len(a) - 1) \o <<Glue(a[Len(a)], b[1])>> \o Tail(b)

\* open(path, "w") and write(text): what the file held is lost
WriteOver(file, text) == text

\* open(path, "a") and write(text): the file is created when it is absent
AppendTo(file, text) == IF file = Absent THEN text ELSE Cat(file, text)

\* what the service makes of one piece
Translated(piece) == IF piece.len = 0 THEN piece ELSE [piece EXCEPT !.zh = TRUE]

\* The answers of the translation service to a request: the translation
\* line by line ("same"), the same without the newline at its end
\* ("stripped"), a translation that lost its first line ("dropped"), the
\* empty string, and no content at all.
Replies == {"same", "stripped", "dropped", "empty", "none"}

Reply(content, kind) ==
    LET zh == [j \in 1..Len(content) |-> Translated(content[j])]
    IN  CASE kind = "same" -> zh
          [] kind = "stripped" ->
                 IF EndsWithNewline(zh) THEN SubSeq(zh, 1, Len(zh) - 1)
                 ELSE zh
          [] kind = "dropped" -> IF Len(zh) > 1 THEN Tail(zh) ELSE <<NoText>>
          [] kind = "empty" -> <<NoText>>
          [] OTHER -> None

RECURSIVE Pow2(_)
Pow2(n) == IF n = 0 THEN 1 ELSE 2 * Pow2(n - 1)

\* The errors of one request: openai.APIConnectionError, APITimeoutError,
\* an APIError whose text holds "502", another APIError, any other
\* exception (a reply without choices among them).
Errors == {"connection", "timeout", "api502", "api", "other"}

\* the wait after failed attempt number attempt (0-based) that is not the
\* last one
wait_time(error, k) ==
    IF error = "api502" THEN Min(MAX_WAIT, RETRY_DELAY * Pow2(k))
    ELSE RETRY_DELAY + k * 2

\* The loop of split_and_translate over lines[line_idx..]: the groups it
\* sends to translate_small_chunk, in order.
RECURSIVE GroupLoop(_, _, _, _, _)
GroupLoop(text_lines, line_idx, current_group, current_length, groups) ==
    LET closed == IF current_group # <<>> THEN Append(groups, current_group)
                  ELSE groups
    IN  IF line_idx > Len(text_lines) THEN closed
        ELSE LET line == text_lines[line_idx] IN
             IF \/ Len(current_group) >= MAX_GROUP_LINES
                \/ current_length + line.len > MAX_GROUP_CHARS
             THEN GroupLoop(text_lines, line_idx + 1, <<line>>, line.len,
                            closed)
             ELSE GroupLoop(text_lines, line_idx + 1,
                            Append(current_group, line),
                            current_length + line.len, groups)

\* a grouping that loses the group still open when the lines run out
GroupsWithoutLast(content) ==
    LET groups == GroupLoop(content, 1, <<>>, 0, <<>>)
    IN  SubSeq(groups, 1, Len(groups) - 1)

Groups(content) == GroupLoop(content, 1, <<>>, 0, <<>>)

\* What happens to the requests of one translate_small_chunk call: fails
\* of them fail, and the next one, if there is one, is answered by reply.
SmallOutcomes ==
    {[fails |-> 0, reply |-> "same"], [fails |-> 2, reply |-> "same"],
     [fails |-> 0, reply |-> "dropped"], [fails |-> 0, reply |-> "none"],
     [fails |-> SMALL_ATTEMPTS, reply |-> "none"]}

\* a retry loop that falls off its end after the last failed attempt
translate_small_chunk_returns_none(content, outcome) ==
    IF outcome.fails >= SMALL_ATTEMPTS THEN None
    ELSE Reply(content, outcome.reply)

translate_small_chunk(content, outcome) ==
    IF outcome.fails >= SMALL_ATTEMPTS THEN content
    ELSE Reply(content, outcome.reply)

\* the requests translate_small_chunk sends, and its sleeps
SmallRequests(content, outcome) ==
    [n \in 1..Min(outcome.fails + 1, SMALL_ATTEMPTS) |-> content]

SmallSleeps(outcome) ==
    [n \in 1..Min(outcome.fails, SMALL_ATTEMPTS - 1) |-> SMALL_DELAY]

\* try: result_lines.extend(translated.split('\n'))
\* except: result_lines.extend(current_group)      (None has no split)
GroupResult(current_group, outcome) ==
    LET translated == translate_small_chunk(current_group, outcome)
    IN  IF translated = None THEN current_group ELSE translated

RECURSIVE SplitFrom(_, _, _)
SplitFrom(groups, outcomes, g) ==
    IF g > Len(groups) THEN <<>>
    ELSE GroupResult(groups[g], outcomes[g])
         \o SplitFrom(groups, outcomes, g + 1)

\* '\n'.join(result_lines)
split_and_translate(content, outcomes) ==
    SplitFrom(Groups(content), outcomes, 1)

RECURSIVE SplitRequestsFrom(_, _, _)
SplitRequestsFrom(groups, outcomes, g) ==
    IF g > Len(groups) THEN <<>>
    ELSE SmallRequests(groups[g], outcomes[g])
         \o SplitRequestsFrom(groups, outcomes, g + 1)

RECURSIVE SplitSleepsFrom(_, _)
SplitSleepsFrom(outcomes, g) ==
    IF g > Len(outcomes) THEN <<>>
    ELSE SmallSleeps(outcomes[g]) \o SplitSleepsFrom(outcomes, g + 1)

----------------------------------------------------------------------------
(* Translation jobs. *)

\* a document of the given kinds of lines; nl tells whether its last line
\* ends in a newline
MkDoc(kinds, nl) ==
    [j \in 1..Len(kinds) |->
        FileLine(j, IF kinds[j] = "text" THEN 3 ELSE 0, kinds[j] = "blank",
                 j < Len(kinds) \/ nl)]

SmallDocs ==
    {MkDoc(d[1], d[2]) :
        d \in {e \in (UNION {[1..n -> {"text", "blank"}] : n \in 0..MaxDocLines})
                     \X BOOLEAN :
                 e[2] \/ (Len(e[1]) > 0 /\ e[1][Len(e[1])] = "text")}}

\* n lines of len characters each
Uniform(n, len) == [j \in 1..n |-> FileLine(j, len, FALSE, TRUE)]

\* fifty lines of one character, then three long lines
ManyShort ==
    [j \in 1..53 |-> FileLine(j, IF j <= 50 THEN 1 ELSE 900, FALSE, TRUE)]

\* documents with more lines than a batch may hold, or with batches of more
\* than MAX_INPUT_CHARS characters
BigDocs ==
    {Uniform(81, 30), Uniform(3, 900), ManyShort, Uniform(1, 2001),
     Uniform(2, 1001), <<FileLine(1, 2001, FALSE, FALSE)>>}

TranslateJobs ==
    {[doc |-> d, cap |-> c, retries |-> r, delay |-> DEFAULT_RETRY_DELAY] :
        d \in SmallDocs, c \in 1..MaxSmallCap, r \in 0..1}
    \cup {[doc |-> MkDoc(<<"text">>, TRUE),
           cap |-> DEFAULT_TRANSLATION_CHUNK_LINES, retries |-> r,
           delay |-> dl] : r \in 0..MaxRetriesCfg, dl \in {DEFAULT_RETRY_DELAY, 40}}
    \cup {[doc |-> d, cap |-> c, retries |-> 1, delay |-> DEFAULT_RETRY_DELAY] :
            d \in BigDocs, c \in {MAX_BATCH_LINES, DEFAULT_TRANSLATION_CHUNK_LINES}}

\* the input file: whether it exists, whether it can be read, its lines
InputFile(exists, readable, doc) ==
    [exists |-> exists, readable |-> readable, lines |-> doc]

NoInput == InputFile(FALSE, FALSE, <<>>)

\* what an earlier run left at output_srt_path
Stale == <<Piece(-2, 5, FALSE), NoText>>

\* chunk_size = min(80, TRANSLATION_CHUNK_LINES)
chunk_size == Min(MAX_BATCH_LINES, TRANSLATION_CHUNK_LINES)

\* a step count that forgets the last, shorter batch
total_steps_floor == Len(srt_lines) \div chunk_size

\* total_steps = math.ceil(total_lines / chunk_size)
total_steps == (Len(srt_lines) + chunk_size - 1) \div chunk_size

\* lines[start_index:end_index] of batch number s
ChunkLines(s) ==
    SubSeq(srt_lines, s * chunk_size + 1,
           Min((s + 1) * chunk_size, Len(srt_lines)))

\* no recognition job: its variables rest
RecognitionIdle ==
    /\ CHUNK_LENGTH_MS = 15000
    /\ duration_ms = 0
    /\ i = 0
    /\ start_ms = 0
    /\ end_ms = 0
    /\ asr_log = <<>>
    /\ results = <<>>
    /\ current_srt_index = 0
    /\ failed_chunks = <<>>
    /\ srt_file = Absent
    /\ chunk_log = <<>>
    /\ calls = <<>>

TranslateInit ==
    /\ RecognitionIdle
    /\ PipelineIdle
    /\ \E job \in TranslateJobs :
          /\ TRANSLATION_CHUNK_LINES = job.cap
          /\ MAX_RETRIES = job.retries
          /\ RETRY_DELAY = job.delay
          /\ input_srt \in {InputFile(TRUE, TRUE, job.doc),
                            InputFile(TRUE, FALSE, job.doc), NoInput}
    /\ out_file \in {Absent, Stale}
    /\ pc = "translate"
    /\ srt_lines = <<>>
    /\ step = 0
    /\ chunk_content = <<>>
    /\ attempt = 0
    /\ sleeps = <<>>
    /\ chat_log = <<>>
    /\ requests = <<>>
    /\ batch_log = <<>>

\* one completed iteration of the batch loop: the batch, what became of it,
\* the text appended to the output file for it, whether the pause followed,
\* what openai_chat_with_retry returned (None when it raised) and, for an
\* oversized batch, its groups and what happened to each
BatchEntry(content, outcome, written, paused, ret, groups, outcomes) ==
    [step |-> step, n |-> Len(ChunkLines(step)), content |-> content,
     outcome |-> outcome, written |-> written, paused |-> paused,
     ret |-> ret, groups |-> groups, outcomes |-> outcomes,
     small |-> [g \in 1..Len(groups) |->
                  [requests |-> SmallRequests(groups[g], outcomes[g]),
                   ret |-> translate_small_chunk(groups[g], outcomes[g])]]]

\* The file checks, readlines, the step count and the removal of an old
\* output file.
Start ==
    /\ pc = "translate"
    /\ IF ~input_srt.exists
       THEN /\ pc' = "FileNotFound"
            /\ UNCHANGED <<srt_lines, out_file>>
       ELSE IF ~input_srt.readable
       THEN /\ pc' = "ReadFailed"
            /\ UNCHANGED <<srt_lines, out_file>>
       ELSE /\ pc' = "batches"
            /\ srt_lines' = input_srt.lines
            /\ out_file' = Absent
    /\ UNCHANGED <<MAX_RETRIES, RETRY_DELAY, attempt, sleeps,
                   TRANSLATION_CHUNK_LINES, input_srt, step, chunk_content,
                   chat_log, requests, batch_log>>
    /\ UNCHANGED avars
    /\ UNCHANGED pvars

\* a handler that lets the failure of the batch end the job
BatchAborts(groups, outcomes) ==
    /\ pc' = "TranslateFailed"
    /\ UNCHANGED <<out_file, batch_log, step>>

\* except Exception (of the batch): the annotation and the original text
\* are appended, and the loop continues
BatchFailed(groups, outcomes) ==
    LET block == <<Annotation(step + 1)>> \o chunk_content
                 \o (IF EndsWithNewline(chunk_content) THEN <<>>
                     ELSE <<NoText>>)
    IN  /\ out_file' = AppendTo(out_file, block)
        /\ batch_log' = Append(batch_log,
               BatchEntry(chunk_content, "fallback", block, FALSE, None,
                          groups, outcomes))
        /\ step' = step + 1
        /\ pc' = "batches"

\* The rest of the try block once openai_chat_with_retry has returned:
\* the newline is added, the text appended, and the pause taken unless
\* this was the last batch.  Writing None raises, which the handler of
\* the batch catches.
WriteTranslated(translated_content, groups, outcomes) ==
    IF translated_content = None THEN BatchFailed(groups, outcomes)
    ELSE LET text == IF /\ translated_content # <<NoText>>
                        /\ ~EndsWithNewline(translated_content)
                     THEN Append(translated_content, NoText)
                     ELSE translated_content
         IN  /\ out_file' = AppendTo(out_file, text)
             /\ batch_log' = Append(batch_log,
                    BatchEntry(chunk_content, "translated", text,
                               step < total_steps - 1, translated_content,
                               groups, outcomes))
             /\ step' = step + 1
             /\ pc' = "batches"

\* The head of one iteration: the batch is cut out and joined; a blank
\* batch is skipped, any other goes to openai_chat_with_retry, which turns
\* to split_and_translate when the text is too long.
BeginBatch ==
    /\ pc = "batches"
    /\ step < total_steps
    /\ LET content == JoinLines(ChunkLines(step)) IN
       /\ chunk_content' = content
       /\ IF IsBlankText(content)
          THEN /\ batch_log' = Append(batch_log,
                      BatchEntry(content, "blank", <<NoText>>, FALSE, None,
                                 <<>>, <<>>))
               /\ step' = step + 1
               /\ UNCHANGED pc
          ELSE /\ pc' = IF TextLen(content) > MAX_INPUT_CHARS THEN "split"
                        ELSE "chat"
               /\ UNCHANGED <<batch_log, step>>
    /\ attempt' = 0
    /\ sleeps' = <<>>
    /\ chat_log' = <<>>
    /\ requests' = <<>>
    /\ UNCHANGED <<MAX_RETRIES, RETRY_DELAY, TRANSLATION_CHUNK_LINES,
                   input_srt, out_file, srt_lines>>
    /\ UNCHANGED avars
    /\ UNCHANGED pvars

\* openai_chat_with_retry with MAX_RETRIES = 0: no request, the call raises
ChatNoAttempt ==
    /\ pc = "chat"
    /\ attempt >= MAX_RETRIES
    /\ BatchFailed(<<>>, <<>>)
    /\ UNCHANGED <<MAX_RETRIES, RETRY_DELAY, attempt, sleeps,
                   TRANSLATION_CHUNK_LINES, input_srt, srt_lines,
                   chunk_content, chat_log, requests>>
    /\ UNCHANGED avars
    /\ UNCHANGED pvars

\* one request that is answered
ChatSuccess(reply) ==
    /\ pc = "chat"
    /\ attempt < MAX_RETRIES
    /\ requests' = Append(requests, chunk_content)
    /\ WriteTranslated(Reply(chunk_content, reply), <<>>, <<>>)
    /\ UNCHANGED <<MAX_RETRIES, RETRY_DELAY, attempt, sleeps,
                   TRANSLATION_CHUNK_LINES, input_srt, srt_lines,
                   chunk_content, chat_log>>
    /\ UNCHANGED avars
    /\ UNCHANGED pvars

\* a retry loop that sleeps after the last attempt as well
ChatFailureAlwaysWaits(error) ==
    /\ pc = "chat"
    /\ attempt < MAX_RETRIES
    /\ requests' = Append(requests, chunk_content)
    /\ chat_log' = Append(chat_log, error)
    /\ sleeps' = Append(sleeps, wait_time(error, attempt))
    /\ IF attempt < MAX_RETRIES - 1
       THEN /\ attempt' = attempt + 1
            /\ UNCHANGED <<pc, out_file, batch_log, step>>
       ELSE /\ BatchFailed(<<>>, <<>>)
            /\ UNCHANGED attempt
    /\ UNCHANGED <<MAX_RETRIES, RETRY_DELAY, TRANSLATION_CHUNK_LINES,
                   input_srt, srt_lines, chunk_content>>
    /\ UNCHANGED avars
    /\ UNCHANGED pvars

\* one request that fails: the wait and the next attempt, or, after the
\* last attempt, the exception that the handler of the batch catches
ChatFailure(error) ==
    /\ pc = "chat"
    /\ attempt < MAX_RETRIES
    /\ requests' = Append(requests, chunk_content)
    /\ chat_log' = Append(chat_log, error)
    /\ IF attempt < MAX_RETRIES - 1
       THEN /\ sleeps' = Append(sleeps, wait_time(error, attempt))
            /\ attempt' = attempt + 1
            /\ UNCHANGED <<pc, out_file, batch_log, step>>
       ELSE /\ BatchFailed(<<>>, <<>>)
            /\ UNCHANGED <<attempt, sleeps>>
    /\ UNCHANGED <<MAX_RETRIES, RETRY_DELAY, TRANSLATION_CHUNK_LINES,
                   input_srt, srt_lines, chunk_content>>
    /\ UNCHANGED avars
    /\ UNCHANGED pvars

\* openai_chat_with_retry on a text of more than MAX_INPUT_CHARS
\* characters: split_and_translate, whose result is then written
SplitAndTranslate(outcomes) ==
    /\ pc = "split"
    /\ LET groups == Groups(chunk_content) IN
       /\ requests' = SplitRequestsFrom(groups, outcomes, 1)
       /\ sleeps' = SplitSleepsFrom(outcomes, 1)
       /\ WriteTranslated(split_and_translate(chunk_content, outcomes),
                          groups, outcomes)
    /\ UNCHANGED <<MAX_RETRIES, RETRY_DELAY, attempt, TRANSLATION_CHUNK_LINES,
                   input_srt, srt_lines, chunk_content, chat_log>>
    /\ UNCHANGED avars
    /\ UNCHANGED pvars

\* after the last batch the function returns True
TranslateFinish ==
    /\ pc = "batches"
    /\ step >= total_steps
    /\ pc' = "Returned"
    /\ UNCHANGED <<MAX_RETRIES, RETRY_DELAY, attempt, sleeps>>
    /\ UNCHANGED tvars
    /\ UNCHANGED pvars
    /\ UNCHANGED avars

TranslateNext ==
    \/ Start
    \/ BeginBatch
    \/ ChatNoAttempt
    \/ \E reply \in Replies : ChatSuccess(reply)
    \/ \E error \in Errors : ChatFailure(error)
    \/ \E outcomes \in [1..Len(Groups(chunk_content)) -> SmallOutcomes] :
          SplitAndTranslate(outcomes)
    \/ TranslateFinish

SpecTranslate == TranslateInit /\ [][TranslateNext]_vars

----------------------------------------------------------------------------
(* The jobs of main.py: process_video_for_gradio and                       *)
(* generate_subtitles_raw.  Each job copies its upload into TEMP_DIR, runs *)
(* the four steps in worker threads and cleans up in its finally block.    *)
(* Jobs share TEMP_DIR, OUTPUT_DIR and the chunk files data/chunk_<i>.wav; *)
(* a file is modelled by who wrote it.  Jobs interleave at the calls that  *)
(* are awaited; a request and the removal of the chunk file that follows   *)
(* it in the finally clause of the loop body are one step.                 *)

MaxJobChunks == 2       \* a job's track has at most this many chunks

Names == {"a", "b"}     \* upload names without their extension

Kinds == {"video", "mp3", "wav", "jp", "zh"}

EntryPoints == {"gradio", "api"}

\* a file written by job `by` (0: an earlier run); n is the chunk exported
\* into a chunk file and -1 for a file that is no chunk file
File(by, n) == [by |-> by, i |-> n]

NoFile == File(-1, -1)

Uploads(kinds, names) ==
    [kind : kinds, name : names, chunks : 1..MaxJobChunks]

\* video_path, mp3_path, wav_path, japanese_srt_path, chinese_srt_path
PathOf(j, kind) == <<kind, upload[j].name>>

NoNamedFiles == [p \in Kinds \X Names |-> NoFile]

NoChunkFiles == [n \in 0..MaxJobChunks |-> NoFile]

\* a chunk file left behind by an earlier run
LeftOver == [NoChunkFiles EXCEPT ![MaxJobChunks] = File(0, MaxJobChunks)]

NewChunk == [i |-> 0, attempt |-> 0, failed |-> 0]

\* the configuration and the idle parts shared by the jobs of main.py
PipelineConfig(retries) ==
    /\ TranslationIdle
    /\ RecognitionIdle
    /\ MAX_RETRIES \in retries
    /\ RETRY_DELAY = DEFAULT_RETRY_DELAY
    /\ pc = "main"
    /\ attempt = 0
    /\ sleeps = <<>>
    /\ posted = {}
    /\ cleaned = {}

\* one job, of either entry point
PipelineInit ==
    /\ PipelineConfig({1, 2})
    /\ \E u \in Uploads(EntryPoints, {"a"}) : upload = <<u>>
    /\ files = NoNamedFiles
    /\ chunk_wavs \in {NoChunkFiles, LeftOver}
    /\ at = <<"copy">>
    /\ chunk = <<NewChunk>>
    /\ events = << <<>> >>
    /\ returned = <<"nothing">>

\* two jobs at once, with the same upload name or with different ones, each
\* chunk posted once
JobsInit ==
    /\ PipelineConfig({1})
    /\ \E u \in Uploads({"gradio"}, {"a"}), w \in Uploads({"api"}, Names) :
          upload = <<u, w>>
    /\ files = NoNamedFiles
    /\ chunk_wavs = NoChunkFiles
    /\ at = <<"copy", "copy">>
    /\ chunk = <<NewChunk, NewChunk>>
    /\ events = << <<>>, <<>> >>
    /\ returned = <<"nothing", "nothing">>

\* the variables of the other jobs, which rest
ovars == <<tvars, avars, MAX_RETRIES, RETRY_DELAY, pc, attempt, sleeps>>

Log(j, evs) == [events EXCEPT ![j] = @ \o evs]

Begun(s) == <<s, "start">>
Ended(s) == <<s, "ok">>
Broke(s) == <<s, "fail">>

\* the position after a step
After(s) ==
    CASE s = "mp3" -> "wav"
      [] s = "wav" -> "asr"
      [] s = "asr" -> "translate"
      [] s = "translate" -> "cleanup"

\* a job that goes on to the next step after a step failed
StepFailedGoesOn(j, s, pre) ==
    /\ events' = Log(j, pre \o <<Broke(s)>>)
    /\ returned' = [returned EXCEPT ![j] = "error"]
    /\ at' = [at EXCEPT ![j] = After(s)]

\* a step failed: the error is reported (a yield and return, or an
\* HTTPException) and control passes to the finally block
StepFailed(j, s, pre) ==
    /\ events' = Log(j, pre \o <<Broke(s)>>)
    /\ returned' = [returned EXCEPT ![j] = "error"]
    /\ at' = [at EXCEPT ![j] = "cleanup"]

\* shutil.copyfile of process_video_for_gradio, outside the try that has the
\* finally block; the open and write of generate_subtitles_raw, inside it
Copy(j, ok) ==
    /\ at[j] = "copy"
    /\ IF ok
       THEN /\ files' = [files EXCEPT ![PathOf(j, "video")] = File(j, -1)]
            /\ events' = Log(j, <<Ended("copy")>>)
            /\ at' = [at EXCEPT ![j] = "mp3"]
            /\ UNCHANGED returned
       ELSE /\ events' = Log(j, <<Broke("copy")>>)
            /\ returned' = [returned EXCEPT ![j] = "error"]
            /\ at' = [at EXCEPT ![j] =
                         IF upload[j].kind = "gradio" THEN "ended"
                         ELSE "cleanup"]
            /\ UNCHANGED files
    /\ UNCHANGED <<upload, chunk_wavs, chunk, posted, cleaned>>
    /\ UNCHANGED ovars

\* step 1: video_to_mp3_with_progress and the checks of its result; without
\* the video FFmpeg reports no stream and the function returns False
VideoToMp3(j, outcome) ==
    /\ at[j] = "mp3"
    /\ outcome \in {"ok", "no_audio", "error"}
    /\ IF outcome = "ok" /\ files[PathOf(j, "video")] # NoFile
       THEN /\ files' = [files EXCEPT ![PathOf(j, "mp3")] = File(j, -1)]
            /\ events' = Log(j, <<Begun("mp3"), Ended("mp3")>>)
            /\ at' = [at EXCEPT ![j] = "wav"]
            /\ UNCHANGED returned
       ELSE /\ StepFailed(j, "mp3", <<Begun("mp3")>>)
            /\ UNCHANGED files
    /\ UNCHANGED <<upload, chunk_wavs, chunk, posted, cleaned>>
    /\ UNCHANGED ovars

\* step 2: mp3_to_wav, the check of its result and cleanup_file(mp3_path)
Mp3ToWav(j, ok) ==
    /\ at[j] = "wav"
    /\ IF ok /\ files[PathOf(j, "mp3")] # NoFile
       THEN /\ files' = [files EXCEPT ![PathOf(j, "wav")] = File(j, -1),
                                      ![PathOf(j, "mp3")] = NoFile]
            /\ events' = Log(j, <<Begun("wav"), Ended("wav")>>)
            /\ at' = [at EXCEPT ![j] = "asr"]
            /\ UNCHANGED returned
       ELSE /\ StepFailed(j, "wav", <<Begun("wav")>>)
            /\ UNCHANGED files
    /\ UNCHANGED <<upload, chunk_wavs, chunk, posted, cleaned>>
    /\ UNCHANGED ovars

\* step 3 begins: perform_asr_and_generate_srt checks and loads the WAV
BeginAsr(j, ok) ==
    /\ at[j] = "asr"
    /\ IF ok /\ files[PathOf(j, "wav")] # NoFile
       THEN /\ events' = Log(j, <<Begun("asr")>>)
            /\ at' = [at EXCEPT ![j] = "export"]
            /\ UNCHANGED returned
       ELSE StepFailed(j, "asr", <<Begun("asr")>>)
    /\ chunk' = [chunk EXCEPT ![j] = NewChunk]
    /\ UNCHANGED <<upload, files, chunk_wavs, posted, cleaned>>
    /\ UNCHANGED ovars

\* the end of one iteration of the chunk loop: the chunk is counted, the
\* finally clause removes the file at chunk_file_path if there is one
EndChunk(j, success) ==
    /\ chunk_wavs' = [chunk_wavs EXCEPT ![chunk[j].i] = NoFile]
    /\ chunk' = [chunk EXCEPT ![j] =
                    [i |-> @.i + 1, attempt |-> 0,
                     failed |-> @.failed + (IF success THEN 0 ELSE 1)]]
    /\ at' = [at EXCEPT ![j] =
                 IF chunk[j].i + 1 < upload[j].chunks THEN "export"
                 ELSE "finish"]

\* chunk.export(chunk_file_path): the path is data/chunk_<i>.wav for every job
ExportChunk(j, ok) ==
    /\ at[j] = "export"
    /\ IF ok
       THEN /\ chunk_wavs' = [chunk_wavs EXCEPT ![chunk[j].i] =
                                 File(j, chunk[j].i)]
            /\ at' = [at EXCEPT ![j] = "post"]
            /\ UNCHANGED chunk
       ELSE EndChunk(j, FALSE)
    /\ UNCHANGED <<upload, files, events, returned, posted, cleaned>>
    /\ UNCHANGED ovars

\* one attempt of perform_asr_with_retry: the file at chunk_file_path is
\* opened and posted.  Without the file, open raises FileNotFoundError, which
\* the retry loop does not catch: the chunk fails.  "rejected" is an answer
\* that is empty or cannot be stitched.
PostChunk(j, outcome) ==
    /\ at[j] = "post"
    /\ outcome \in {"ok", "rejected", "fail"}
    /\ LET audio == chunk_wavs[chunk[j].i] IN
       IF audio = NoFile
       THEN /\ EndChunk(j, FALSE)
            /\ UNCHANGED posted
       ELSE /\ posted' = posted \cup
                   {[job |-> j, i |-> chunk[j].i, audio |-> audio]}
            /\ IF outcome = "fail" /\ chunk[j].attempt + 1 < MAX_RETRIES
               THEN /\ chunk' = [chunk EXCEPT ![j].attempt = @ + 1]
                    /\ UNCHANGED <<at, chunk_wavs>>
               ELSE EndChunk(j, outcome = "ok")
    /\ UNCHANGED <<upload, files, events, returned, cleaned>>
    /\ UNCHANGED ovars

\* step 3 ends: the threshold check, the writing of the Japanese document,
\* then the check of main.py and cleanup_file(wav_path)
AsrFinish(j) ==
    /\ at[j] = "finish"
    /\ IF 2 * chunk[j].failed > upload[j].chunks
       THEN /\ StepFailed(j, "asr", <<>>)
            /\ UNCHANGED files
       ELSE /\ files' = [files EXCEPT ![PathOf(j, "jp")] = File(j, -1),
                                      ![PathOf(j, "wav")] = NoFile]
            /\ events' = Log(j, <<Ended("asr")>>)
            /\ at' = [at EXCEPT ![j] = "translate"]
            /\ UNCHANGED returned
    /\ UNCHANGED <<upload, chunk_wavs, chunk, posted, cleaned>>
    /\ UNCHANGED ovars

\* an exception of perform_asr_and_generate_srt outside the try of the loop
\* body (slicing the audio, the progress bar)
AsrRaises(j) ==
    /\ at[j] = "export"
    /\ StepFailed(j, "asr", <<>>)
    /\ UNCHANGED <<upload, files, chunk_wavs, chunk, posted, cleaned>>
    /\ UNCHANGED ovars

\* step 4: translate_srt_to_chinese, the check of its result,
\* cleanup_file(japanese_srt_path) and the file handed to the caller.
\* "empty" is a document without a batch to write: the old output file is
\* removed and none is created.
Translate(j, outcome) ==
    /\ at[j] = "translate"
    /\ outcome \in {"ok", "empty", "error"}
    /\ IF outcome = "error" \/ files[PathOf(j, "jp")] = NoFile
       THEN /\ StepFailed(j, "translate", <<Begun("translate")>>)
            /\ UNCHANGED files
       ELSE IF outcome = "empty"
       THEN /\ StepFailed(j, "translate", <<Begun("translate")>>)
            /\ files' = [files EXCEPT ![PathOf(j, "zh")] = NoFile]
       ELSE /\ files' = [files EXCEPT ![PathOf(j, "zh")] = File(j, -1),
                                      ![PathOf(j, "jp")] = NoFile]
            /\ events' = Log(j, <<Begun("translate"), Ended("translate")>>)
            /\ returned' = [returned EXCEPT ![j] = "file"]
            /\ at' = [at EXCEPT ![j] = "cleanup"]
    /\ UNCHANGED <<upload, chunk_wavs, chunk, posted, cleaned>>
    /\ UNCHANGED ovars

\* an exception between two steps, caught by the outer except clause
Interrupted(j) ==
    /\ at[j] \in {"mp3", "wav", "asr", "translate"}
    /\ events' = Log(j, << <<"job", "exception">> >>)
    /\ returned' = [returned EXCEPT ![j] = "error"]
    /\ at' = [at EXCEPT ![j] = "cleanup"]
    /\ UNCHANGED <<upload, files, chunk_wavs, chunk, posted, cleaned>>
    /\ UNCHANGED ovars

\* the paths the finally block hands to cleanup_file: generate_subtitles_raw
\* has set only video_path when saving the upload failed
CleanupPaths(j) ==
    IF events[j][1] = Broke("copy") THEN {PathOf(j, "video")}
    ELSE {PathOf(j, k) : k \in {"video", "mp3", "wav", "jp"}}

\* job o, running, has written the file at p and has yet to read it
Needs(o, p) ==
    /\ o \in DOMAIN upload
    /\ p = PathOf(o, p[1])
    /\ at[o] = CASE p[1] = "video" -> "mp3"
                 [] p[1] = "mp3" -> "wav"
                 [] p[1] = "wav" -> "asr"
                 [] p[1] = "jp" -> "translate"
                 [] OTHER -> "never"

\* job o, running, has exported chunk file n and has yet to post it
NeedsChunk(o, n) ==
    /\ o \in DOMAIN upload
    /\ at[o] = "post"
    /\ chunk[o].i = n

\* os.remove(file_path) if the file exists
cleanup_file(fs, file_path) == [fs EXCEPT ![file_path] = NoFile]

\* a finally block that does not call cleanup_chunk_files
FinalCleanupKeepsChunkFiles(j) ==
    /\ at[j] = "cleanup"
    /\ files' = [p \in DOMAIN files |->
                    IF p \in CleanupPaths(j) THEN cleanup_file(files, p)[p]
                    ELSE files[p]]
    /\ cleaned' = cleaned
    /\ events' = Log(j, <<Ended("cleanup")>>)
    /\ at' = [at EXCEPT ![j] = "ended"]
    /\ UNCHANGED <<upload, chunk_wavs, chunk, returned, posted>>
    /\ UNCHANGED ovars

\* the finally block: cleanup_file of the video copy, the MP3, the WAV and
\* the Japanese document, then cleanup_chunk_files, which removes every
\* chunk_*.wav of TEMP_DIR
FinalCleanup(j) ==
    /\ at[j] = "cleanup"
    /\ files' = [p \in DOMAIN files |->
                    IF p \in CleanupPaths(j) THEN cleanup_file(files, p)[p]
                    ELSE files[p]]
    /\ chunk_wavs' = [n \in DOMAIN chunk_wavs |-> NoFile]
    /\ cleaned' = cleaned
          \cup {[by |-> j, owner |-> files[p].by, what |-> p[1]] :
                  p \in {q \in CleanupPaths(j) :
                           files[q].by # j /\ Needs(files[q].by, q)}}
          \cup {[by |-> j, owner |-> chunk_wavs[n].by, what |-> "chunk"] :
                  n \in {m \in DOMAIN chunk_wavs :
                           /\ chunk_wavs[m].by # j
                           /\ NeedsChunk(chunk_wavs[m].by, m)}}
    /\ events' = Log(j, <<Ended("cleanup")>>)
    /\ at' = [at EXCEPT ![j] = "ended"]
    /\ UNCHANGED <<upload, chunk, returned, posted>>
    /\ UNCHANGED ovars

PipelineNext ==
    \/ \E j \in DOMAIN upload, ok \in BOOLEAN : Copy(j, ok)
    \/ \E j \in DOMAIN upload, outcome \in {"ok", "no_audio", "error"} : VideoToMp3(j, outcome)
    \/ \E j \in DOMAIN upload, ok \in BOOLEAN : Mp3ToWav(j, ok)
    \/ \E j \in DOMAIN upload, ok \in BOOLEAN : BeginAsr(j, ok)
    \/ \E j \in DOMAIN upload, ok \in BOOLEAN : ExportChunk(j, ok)
    \/ \E j \in DOMAIN upload, outcome \in {"ok", "rejected", "fail"} : PostChunk(j, outcome)
    \/ \E j \in DOMAIN upload : AsrRaises(j)
    \/ \E j \in DOMAIN upload : AsrFinish(j)
    \/ \E j \in DOMAIN upload, outcome \in {"ok", "empty", "error"} : Translate(j, outcome)
    \/ \E j \in DOMAIN upload : Interrupted(j)
    \/ \E j \in DOMAIN upload : FinalCleanup(j)

\* a single job of main.py
SpecPipeline == PipelineInit /\ [][PipelineNext]_vars

\* two jobs of main.py running at the same time
SpecJobs == JobsInit /\ [][PipelineNext]_vars

----------------------------------------------------------------------------
(* Notions the properties are stated with. *)

\* ceil(D / L): the least n with n * L >= D
CeilDiv(D, L) ==
    CHOOSE n \in 0..MaxChunks : n * L >= D /\ \A m \in 0..(n - 1) : m * L < D

FailedCount ==
    Cardinality({j \in 1..Len(chunk_log) : chunk_log[j].outcome = "failed"})

Finished == pc \in {"Done", "Failed"}

\* a cue starts at a numeric line that a time-range line follows directly
CueStart(doc, p) ==
    /\ doc[p].k = "num"
    /\ p + 1 <= Len(doc)
    /\ doc[p + 1].k = "time"

RECURSIVE CueNumbersFrom(_, _)
CueNumbersFrom(doc, p) ==
    IF p > Len(doc) THEN <<>>
    ELSE IF CueStart(doc, p)
         THEN <<ToInt(doc[p].d)>> \o CueNumbersFrom(doc, p + 1)
    ELSE CueNumbersFrom(doc, p + 1)

\* the sequence numbers of the cues of a document, in document order
CueNumbers(doc) == CueNumbersFrom(doc, 1)

SeqToSet(sq) == {sq[j] : j \in 1..Len(sq)}

RECURSIVE CueTimesFrom(_, _)
CueTimesFrom(doc, p) ==
    IF p > Len(doc) THEN <<>>
    ELSE IF CueStart(doc, p)
         THEN <<doc[p + 1].parts>> \o CueTimesFrom(doc, p + 1)
    ELSE CueTimesFrom(doc, p + 1)

\* the time ranges of the cues of a document, in document order
CueTimesOf(doc) == CueTimesFrom(doc, 1)

\* the time a timestamp of four fields denotes, in milliseconds
StampMs(ts) ==
    ((ToInt(ts[1]) * 60 + ToInt(ts[2])) * 60 + ToInt(ts[3])) * 1000 + ToInt(ts[4])

\* zero-padded HH:MM:SS,mmm with minutes and seconds below 60
IsCanonical(ts) ==
    /\ Len(ts) = 4
    /\ Len(ts[1]) >= 2
    /\ Len(ts[1]) > 2 => ts[1][1] # 0
    /\ Len(ts[2]) = 2 /\ ToInt(ts[2]) < 60
    /\ Len(ts[3]) = 2 /\ ToInt(ts[3]) < 60
    /\ Len(ts[4]) = 3

----------------------------------------------------------------------------
(* Properties of the recognition job (specification Spec). *)

\* C1: the job processes exactly ceil(D / L) chunks; chunk number j (from 0)
\* spans [j * L, min((j + 1) * L, D)), so the chunks cover [0, D) without gap
\* or overlap, none is longer than L or empty, and the last one ends at D.
C1_ChunksCoverTrack ==
    LET N == Len(chunk_log)
        D == duration_ms
        L == CHUNK_LENGTH_MS
    IN  /\ N <= CeilDiv(D, L)
        /\ Finished => N = CeilDiv(D, L)
        /\ \A j \in 1..N :
              /\ chunk_log[j].start_ms = (j - 1) * L
              /\ chunk_log[j].end_ms = Min(j * L, D)
              /\ chunk_log[j].start_ms < chunk_log[j].end_ms
              /\ chunk_log[j].end_ms - chunk_log[j].start_ms <= L
        /\ \A j \in 1..(N - 1) : chunk_log[j].end_ms = chunk_log[j + 1].start_ms
        /\ (N > 0 /\ N = CeilDiv(D, L)) => chunk_log[N].end_ms = D

\* C1 witness: the 35 s track cut into chunks of 15000, 15000 and 5000 ms.
C1_Witness ==
    /\ pc = "Done"
    /\ duration_ms = 35000
    /\ CHUNK_LENGTH_MS = 15000
    /\ Len(chunk_log) = 3
    /\ chunk_log[3].start_ms = 30000
    /\ chunk_log[3].end_ms = 35000

C6_ChunkFailureDoesNotAbort ==
    /\ \A j \in 1..Len(chunk_log) :
          /\ chunk_log[j].i = j - 1
          /\ chunk_log[j].cause = "asr" => j \in SeqToSet(failed_chunks)
    /\ pc \in {"loop", "asr"} => i = Len(chunk_log)
    /\ Finished => Len(chunk_log) = CeilDiv(duration_ms, CHUNK_LENGTH_MS)
    /\ pc = "Failed" => 2 * FailedCount > Len(chunk_log)

\* C6 witness: the first chunk exhausted its attempts, the two chunks after it
\* were recognised, and the job ended with a document.
C6_Witness ==
    /\ pc = "Done"
    /\ Len(chunk_log) = 3
    /\ chunk_log[1].cause = "asr"
    /\ chunk_log[2].outcome = "ok"
    /\ chunk_log[3].outcome = "ok"

\* C8: one recognition call sends at most MAX_RETRIES requests and none after
\* a 200; it signals failure only after MAX_RETRIES failed requests; every
\* wait lasts RETRY_DELAY, one wait separates two consecutive requests and no
\* wait follows the last request.
C8_RetryPolicy ==
    LET n == Len(asr_log) IN
    pc # "stitcher" =>
    /\ n <= MAX_RETRIES
    /\ \A j \in 1..(n - 1) : asr_log[j] = "failed"
    /\ \A j \in 1..Len(sleeps) : sleeps[j] = RETRY_DELAY
    /\ pc = "asr" => /\ attempt = n
                     /\ Len(sleeps) = n
                     /\ \A j \in 1..n : asr_log[j] = "failed"
    /\ (pc # "asr" /\ n > 0) => Len(sleeps) = n - 1
    /\ (pc # "asr" /\ chunk_log # <<>>) =>
          LET last == chunk_log[Len(chunk_log)] IN
          /\ last.cause \in {"asr", "none"} =>
                /\ n = MAX_RETRIES
                /\ \A j \in 1..n : asr_log[j] = "failed"
          /\ last.cause \in {"ok", "empty", "stitch"} => asr_log[n] = "200"

\* C8 witness: two failed requests, each followed by one wait, then a 200.
C8_Witness ==
    /\ pc = "loop"
    /\ MAX_RETRIES = 3
    /\ asr_log = <<"failed", "failed", "200">>
    /\ sleeps = <<RETRY_DELAY, RETRY_DELAY>>

\* C4: in the assembled document the cues of chunk i are shifted by exactly
\* i * CHUNK_LENGTH_MS milliseconds and are numbered after every cue of the
\* successful chunks before it.
C4_ChunkShiftExact ==
    \A j \in 1..Len(chunk_log) :
        LET e == chunk_log[j] IN
        e.outcome = "ok" =>
            LET before == CueTimesOf(e.fragment)
                after == CueTimesOf(e.ret.text)
            IN  /\ Len(after) = Len(before)
                /\ \A c \in 1..Len(before) : \A x \in 1..2 :
                      /\ IsCanonical(after[c][x])
                      /\ StampMs(after[c][x])
                            = StampMs(before[c][x]) + e.i * CHUNK_LENGTH_MS
                /\ \A j2 \in 1..(j - 1) :
                      chunk_log[j2].outcome = "ok" =>
                          \A a \in SeqToSet(CueNumbers(chunk_log[j2].ret.text)),
                             b \in SeqToSet(CueNumbers(e.ret.text)) : a < b

\* C7: a chunk whose recognition call got a 200 is never recorded as failed,
\* whatever the fragment text is.
C7_RecognisedNeverFailed ==
    (pc \in {"loop", "Done", "Failed"} /\ asr_log # <<>>
        /\ asr_log[Len(asr_log)] = "200")
    => chunk_log[Len(chunk_log)].outcome = "ok"

\* C10: whatever chunks fail, when the recognised fragments are valid subtitle
\* documents the cues of the assembled document are numbered 1, 2, ..., N.
C10_NumbersEqualPositions ==
    pc = "Done" =>
        LET numbers == CueNumbers(srt_file)
        IN  \A p \in 1..Len(numbers) : numbers[p] = p

----------------------------------------------------------------------------
(* Properties of the stitcher (specification SpecStitch). *)

RECURSIVE IsSeqLine(_, _)
\* line p is read as a sequence number: it is numeric and the line before it
\* is not one (the line after a sequence number is read as its time range)
IsSeqLine(lines, p) ==
    /\ IsDigit(lines[p])
    /\ p = 1 \/ ~IsSeqLine(lines, p - 1)

MaxOf(S) == IF S = {} THEN 0 ELSE CHOOSE m \in S : \A x \in S : x <= m

\* the sequence numbers seen in a fragment
SeenNumbers(content) ==
    LET lines == StripSplit(content)
    IN  {ToInt(lines[p].d) : p \in {q \in 1..Len(lines) : IsSeqLine(lines, q)}}

\* the greatest of them for each modelled fragment, 0 when there is none
MaxSeen == [f \in Fragments |-> MaxOf(SeenNumbers(f))]


RECURSIVE AccumulatedMax(_)
\* the sum of the maxima of the fragments stitched by calls 1..n
AccumulatedMax(n) ==
    IF n = 0 THEN 0
    ELSE AccumulatedMax(n - 1)
         + (IF calls[n].ret.raised THEN 0 ELSE MaxSeen[calls[n].content])

\* C2: every cue of a well-formed fragment comes out with sequence number
\* indexOffset + its own, with start and end moved by startOffsetSeconds * 1000
\* milliseconds and rendered as zero-padded HH:MM:SS,mmm, and with its text
\* lines unchanged.
C2_CuesShifted ==
    \A n \in 1..Len(calls) : \A k \in 1..MaxCues : \A st \in Styles :
        LET c == calls[n]
            stride == Len(CueText(st)) + 3
        IN  c.content = FragmentTable[k, st] =>
            /\ ~c.ret.raised
            /\ Len(c.ret.text) = k * stride
            /\ \A j \in 1..k :
                  LET p == (j - 1) * stride + 1
                      out == c.ret.text
                  IN  /\ out[p] = NumLine(Digits(c.index + j))
                      /\ out[p + 1].k = "time"
                      /\ Len(out[p + 1].parts) = 2
                      /\ \A x \in 1..2 :
                            /\ IsCanonical(out[p + 1].parts[x])
                            /\ StampMs(out[p + 1].parts[x])
                                  = StampMs(CueTimes(j, st)[x]) + c.time
                      /\ \A x \in 1..Len(CueText(st)) :
                            out[p + 1 + x] = CueText(st)[x]

\* C3: a call returns indexOffset + the greatest sequence number seen in the
\* fragment; when each call starts from the index the call before returned,
\* the numbers a call emits are the fragment's own plus the accumulated maxima
\* of the fragments before it (cues 1..k come out as offset+1..offset+k).
C3_IndexAccumulates ==
    \A n \in 1..Len(calls) :
        LET c == calls[n]
            base == calls[1].index + AccumulatedMax(n - 1)
            lines == StripSplit(c.content)
        IN  /\ c.index = base
            /\ ~c.ret.raised =>
                  /\ c.ret.index = base + MaxSeen[c.content]
                  /\ \A p \in 1..Len(lines) :
                        IsSeqLine(lines, p) =>
                            c.ret.text[p]
                                = NumLine(Digits(base + ToInt(lines[p].d)))
                  /\ \A k \in 1..MaxCues : \A st \in Styles \ {"digits"} :
                        c.content = FragmentTable[k, st] =>
                            /\ c.ret.index = base + k
                            /\ CueNumbers(c.ret.text) = [j \in 1..k |-> base + j]

\* C3 witness: two fragments with cues 1..3 stitched from offset 0 give 3 and
\* then 6, and the second comes out numbered 4, 5, 6.
C3_Witness ==
    /\ Len(calls) = 2
    /\ calls[1].content = Fragment(3, "plain")
    /\ calls[2].content = Fragment(3, "plain")
    /\ calls[1].index = 0
    /\ calls[1].ret.index = 3
    /\ calls[2].ret.index = 6
    /\ CueNumbers(calls[2].ret.text) = <<4, 5, 6>>

\* C9: adjust_srt_timestamps raises for no fragment text.
C9_NeverRaises == \A n \in 1..Len(calls) : ~calls[n].ret.raised

----------------------------------------------------------------------------
(* Properties of the translation job (under SpecTranslate). *)

\* the batches that went to openai_chat_with_retry
Processed(entry) == entry.outcome # "blank"

\* the batch was longer than MAX_INPUT_CHARS and went to split_and_translate
Oversized(entry) == entry.groups # <<>>

\* a group of an oversized batch whose original lines stand in the result
GroupFellBack(outcome) ==
    outcome.fails >= SMALL_ATTEMPTS \/ outcome.reply = "none"

\* the block the spec asks for when a batch fails: the annotation, then the
\* original lines of the batch
MarkedBlock(entry) ==
    <<Annotation(entry.step + 1)>> \o entry.content
    \o (IF EndsWithNewline(entry.content) THEN <<>> ELSE <<NoText>>)

\* C11: for every batch that was processed, the number of newline-delimited
\* lines appended to the output file for it (translation or fallback)
\* equals the number of lines of the batch.
C11_LineCountPreserved ==
    \A k \in 1..Len(batch_log) :
        Processed(batch_log[k]) =>
            LineCount(batch_log[k].written) = batch_log[k].n

\* C12: a batch whose translation call exhausted all its retries (the call
\* raised, or, for an oversized batch, every group ran out of attempts)
\* leaves in the output file the failure annotation followed by all the
\* original lines of the batch.
C12_FallbackBlockMarked ==
    \A k \in 1..Len(batch_log) :
        LET entry == batch_log[k] IN
        (\/ entry.outcome = "fallback"
         \/ /\ Oversized(entry)
            /\ \A g \in 1..Len(entry.groups) :
                   entry.outcomes[g].fails >= SMALL_ATTEMPTS)
        => entry.written = MarkedBlock(entry)

RECURSIVE FlattenFrom(_, _)
\* the lines of groups g, g+1, ... one after another
FlattenFrom(groups, g) ==
    IF g > Len(groups) THEN <<>>
    ELSE groups[g] \o FlattenFrom(groups, g + 1)

\* the translation of a group has as many lines as the group, or the group
\* fell back to its original lines
KeepsLines(outcome) == GroupFellBack(outcome) \/ outcome.reply = "same"

\* C14: for an oversized batch, the groups of split_and_translate are
\* non-empty and, one after another, are exactly the lines of the batch;
\* when every group keeps its number of lines the result has as many lines
\* as the batch, and when every group falls back the result is the text of
\* the batch.
C14_SplitPreservesLines ==
    \A k \in 1..Len(batch_log) :
        LET entry == batch_log[k] IN
        Oversized(entry) =>
            /\ \A g \in 1..Len(entry.groups) : entry.groups[g] # <<>>
            /\ FlattenFrom(entry.groups, 1) = entry.content
            /\ (\A g \in 1..Len(entry.groups) : KeepsLines(entry.outcomes[g]))
                   => Len(entry.ret) = Len(entry.content)
            /\ (\A g \in 1..Len(entry.groups) :
                    GroupFellBack(entry.outcomes[g]))
                   => entry.ret = entry.content

\* an oversized batch of at least three groups, the first translated line
\* by line and the others fallen back, one of them after three failures
C14_Witness ==
    \E k \in 1..Len(batch_log) :
        LET entry == batch_log[k] IN
        /\ Len(entry.groups) >= 3
        /\ entry.outcomes[1].reply = "same"
        /\ entry.outcomes[1].fails = 0
        /\ entry.outcomes[2].fails >= SMALL_ATTEMPTS
        /\ \A g \in 2..Len(entry.groups) : GroupFellBack(entry.outcomes[g])
        /\ Len(entry.ret) = Len(entry.content)
        /\ entry.ret # entry.content

\* C15: a job that was not stopped by a missing input or by the recognition
\* threshold ends with its document on disk: once translate_srt_to_chinese
\* has returned True its output file exists, and once
\* perform_asr_and_generate_srt has returned its output file exists.
C15_DocumentOnDisk ==
    /\ pc = "Returned" => out_file # Absent
    /\ pc = "Done" => srt_file # Absent

\* C16: whenever a batch, or a group of an oversized batch, ends in the
\* original untranslated text, the text written for the batch carries the
\* annotation that names the batch.
C16_PartialFailureReported ==
    \A k \in 1..Len(batch_log) :
        LET entry == batch_log[k] IN
        (\/ entry.outcome = "fallback"
         \/ \E g \in 1..Len(entry.groups) : GroupFellBack(entry.outcomes[g]))
        => \E j \in 1..Len(entry.written) :
               entry.written[j].ann = entry.step + 1

\* the least m with m * cap >= total
StepsNeeded(total, cap) ==
    CHOOSE m \in 0..total : m * cap >= total /\ (m = 0 \/ (m - 1) * cap < total)

RECURSIVE LinesBefore(_)
\* the number of lines of the batches logged before entry number k
LinesBefore(k) == IF k <= 1 THEN 0 ELSE LinesBefore(k - 1) + batch_log[k - 1].n

RECURSIVE WrittenUpTo(_)
\* what the batches logged in entries 1..k appended, one text after another
WrittenUpTo(k) ==
    IF k = 0 THEN Absent
    ELSE IF ~Processed(batch_log[k]) THEN WrittenUpTo(k - 1)
    ELSE IF WrittenUpTo(k - 1) = Absent THEN batch_log[k].written
    ELSE Cat(WrittenUpTo(k - 1), batch_log[k].written)

\* C18: at every point of the batch loop the output file holds exactly the
\* texts written for the non-blank batches processed so far, each once and
\* in batch order: nothing of an earlier run, and nothing lost or rewritten
\* when a later batch fails.
C18_IncrementalOrderedOutput ==
    pc \in {"batches", "chat", "split", "Returned"} =>
        /\ out_file = WrittenUpTo(Len(batch_log))
        /\ \A k \in 1..Len(batch_log) : batch_log[k].step = k - 1

\* the first batch was translated and written, the second one failed
C18_Witness ==
    /\ pc = "batches"
    /\ Len(batch_log) = 2
    /\ batch_log[1].outcome = "translated"
    /\ batch_log[1].written # <<NoText>>
    /\ batch_log[2].outcome = "fallback"
    /\ out_file = Cat(batch_log[1].written, batch_log[2].written)

\* the wait the claim names after failed attempt k (0-based)
ClaimedWait(error, k) ==
    IF error = "api502"
    THEN (IF RETRY_DELAY * Pow2(k) < 60 THEN RETRY_DELAY * Pow2(k) ELSE 60)
    ELSE RETRY_DELAY + 2 * k

\* the call of openai_chat_with_retry for a batch of at most 2000
\* characters is running, or was the last thing the loop did
InChatCall == pc = "chat"

ChatCallOver ==
    /\ pc \in {"batches", "Returned"}
    /\ batch_log # <<>>
    /\ Processed(batch_log[Len(batch_log)])
    /\ ~Oversized(batch_log[Len(batch_log)])

\* C19: openai_chat_with_retry sends at most MAX_RETRIES requests for a
\* batch of at most 2000 characters and none after the first answer; after
\* failed attempt k that is not the last it waits min(60, RETRY_DELAY * 2^k)
\* for an API error whose text holds 502 and RETRY_DELAY + 2k otherwise;
\* after the last failed attempt it raises without waiting.
C19_TranslationRetryPolicy ==
    (InChatCall \/ ChatCallOver) =>
        /\ Len(requests) <= MAX_RETRIES
        /\ \A n \in 1..Len(requests) : requests[n] = chunk_content
        /\ \A n \in 1..Len(sleeps) :
               /\ sleeps[n] = ClaimedWait(chat_log[n], n - 1)
               /\ chat_log[n] = "api502" => sleeps[n] <= 60
        /\ InChatCall =>
               /\ Len(requests) = Len(chat_log)
               /\ Len(sleeps) = Len(chat_log)
               /\ Len(chat_log) = attempt
               /\ Len(chat_log) <= Max(MAX_RETRIES - 1, 0)
        /\ ChatCallOver =>
               IF Len(chat_log) >= MAX_RETRIES
               THEN /\ Len(requests) = MAX_RETRIES
                    /\ Len(sleeps) = Max(MAX_RETRIES - 1, 0)
                    /\ batch_log[Len(batch_log)].outcome = "fallback"
               ELSE /\ Len(requests) = Len(chat_log) + 1
                    /\ Len(sleeps) = Len(chat_log)
                    /\ batch_log[Len(batch_log)].ret
                           \in {Reply(chunk_content, r) : r \in Replies}

\* three attempts with a delay of 40: 502 twice, waits of 40 and 60 (capped),
\* then a last failure and no further wait
C19_Witness ==
    /\ ChatCallOver
    /\ MAX_RETRIES = 3
    /\ RETRY_DELAY = 40
    /\ chat_log = <<"api502", "api502", "connection">>
    /\ sleeps = <<40, 60>>
    /\ batch_log[Len(batch_log)].outcome = "fallback"

\* C20: for a batch of more than 2000 characters no request carries the
\* whole batch, and every request carries a group of at most 50 lines whose
\* lengths sum to at most 1000 characters.
C20_RequestsWithinGroupLimits ==
    (pc \in {"batches", "split", "Returned"}
     /\ TextLen(chunk_content) > MAX_INPUT_CHARS) =>
        \A n \in 1..Len(requests) :
            /\ requests[n] # chunk_content
            /\ Len(requests[n]) <= MAX_GROUP_LINES
            /\ SumLen(requests[n]) <= MAX_GROUP_CHARS

\* C21: translate_small_chunk never raises: it sends at most 3 requests,
\* returns the first reply it gets without sending more, and after 3 failed
\* attempts returns its input unchanged; so split_and_translate returns a
\* text for every oversized batch and the batch is written as translated.
C21_SmallChunkNeverRaises ==
    \A b \in 1..Len(batch_log) :
        LET entry == batch_log[b] IN
        Oversized(entry) =>
            /\ entry.outcome = "translated"
            /\ entry.ret # None
            /\ \A g \in 1..Len(entry.groups) :
                   LET o == entry.outcomes[g]
                       c == entry.small[g]
                   IN  /\ Len(c.requests) <= 3
                       /\ \A n \in 1..Len(c.requests) :
                              c.requests[n] = entry.groups[g]
                       /\ o.fails < 3 =>
                              /\ Len(c.requests) = o.fails + 1
                              /\ c.ret = Reply(entry.groups[g], o.reply)
                       /\ o.fails >= 3 =>
                              /\ Len(c.requests) = 3
                              /\ c.ret = entry.groups[g]

\* an oversized batch one of whose groups failed three times, another
\* answered at the third attempt
C21_Witness ==
    \E b \in 1..Len(batch_log) :
        /\ Oversized(batch_log[b])
        /\ \E g \in 1..Len(batch_log[b].groups) :
               batch_log[b].outcomes[g].fails >= 3
        /\ \E g \in 1..Len(batch_log[b].groups) :
               batch_log[b].outcomes[g].fails = 2

----------------------------------------------------------------------------
(* Further properties of the recognition job (specification Spec). *)

\* the timestamps of the cues, read in document order, never go back
NonDecreasing(ts) ==
    \A k \in 1..Len(ts) :
        /\ StampMs(ts[k][1]) <= StampMs(ts[k][2])
        /\ k < Len(ts) => StampMs(ts[k][2]) <= StampMs(ts[k + 1][1])

\* every cue ends within the first d milliseconds
Within(ts, d) == \A k \in 1..Len(ts) : StampMs(ts[k][2]) <= d

\* the fragment of every stitched chunk has ordered cues that lie within the
\* chunk's duration
FragmentsFitChunks ==
    \A k \in 1..Len(chunk_log) :
        chunk_log[k].outcome = "ok" =>
            LET ts == CueTimesOf(chunk_log[k].fragment)
            IN  /\ NonDecreasing(ts)
                /\ Within(ts, chunk_log[k].end_ms - chunk_log[k].start_ms)

\* C22: when every fragment's cues have non-decreasing time ranges within
\* [0, duration of its chunk], the time ranges of the assembled document are
\* non-decreasing over the whole document, whichever chunks failed.
C22_DocumentTimesOrdered ==
    (pc = "Done" /\ FragmentsFitChunks) => NonDecreasing(CueTimesOf(srt_file))

RECURSIVE Assembled(_)
\* the stitched fragments of the successful ones of the first k chunks, one
\* after the other
Assembled(k) ==
    IF k = 0 THEN EmptyString
    ELSE IF chunk_log[k].outcome = "ok"
         THEN Concat(Assembled(k - 1), chunk_log[k].ret.text)
    ELSE Assembled(k - 1)

\* C25: chunks are processed one at a time in increasing index order, each
\* exactly once; the threshold check and the writing of the document come
\* only after the last chunk, and the written document is the concatenation
\* of the stitched fragments of exactly the successful chunks, in chunk order.
C25_InOrderThenWritten ==
    /\ Len(chunk_log) = i
    /\ \A k \in 1..Len(chunk_log) :
           /\ chunk_log[k].i = k - 1
           /\ (chunk_log[k].outcome = "ok") = (k \notin SeqToSet(failed_chunks))
    /\ pc \in {"Done", "Failed"} => Len(chunk_log) = total_chunks
    /\ pc # "Done" => srt_file \in {Absent, OldSrt}
    /\ pc = "Done" => srt_file = Assembled(Len(chunk_log))

\* C25 witness: a written document of two different fragments with a failed
\* chunk between them
C25_Witness ==
    /\ pc = "Done"
    /\ Len(chunk_log) = 3
    /\ chunk_log[1].outcome = "ok"
    /\ chunk_log[2].outcome = "failed"
    /\ chunk_log[3].outcome = "ok"
    /\ chunk_log[1].fragment # chunk_log[3].fragment

RECURSIVE LastIndex(_)
\* the index offset returned by the last successful one of the first k chunks
LastIndex(k) ==
    IF k = 0 THEN 0
    ELSE IF chunk_log[k].outcome = "ok" THEN chunk_log[k].ret.index
    ELSE LastIndex(k - 1)

OkCount(k) == Cardinality({j \in 1..k : chunk_log[j].outcome = "ok"})

\* C26: a chunk that fails, for whatever reason, leaves the running index
\* offset and the list of accumulated fragments as they were, so every chunk
\* starts from the offset the last successful chunk returned.
C26_FailureLeavesIndexAndResults ==
    /\ current_srt_index = LastIndex(Len(chunk_log))
    /\ Len(results) = OkCount(Len(chunk_log))
    /\ \A k \in 1..Len(chunk_log) :
           /\ chunk_log[k].index_before = LastIndex(k - 1)
           /\ chunk_log[k].outcome = "ok" =>
                  results[OkCount(k)] = chunk_log[k].ret.text

\* C26 witness: a chunk whose fragment could not be stitched, between two
\* successful chunks, the second numbered from where the first ended
C26_Witness ==
    /\ Len(chunk_log) = 3
    /\ chunk_log[1].outcome = "ok"
    /\ chunk_log[2].outcome = "failed"
    /\ chunk_log[2].cause = "stitch"
    /\ chunk_log[3].outcome = "ok"
    /\ chunk_log[3].index_before = chunk_log[1].ret.index
    /\ chunk_log[3].index_before > 0

\* C27: in the assembled document every two consecutive cues are separated
\* by a blank line, also the last cue of one fragment and the first cue of
\* the next fragment.
C27_CuesSeparatedByBlankLine ==
    pc = "Done" =>
        \A p \in 2..Len(srt_file) :
            CueStart(srt_file, p) => srt_file[p - 1].k = "blank"

\* C30: when the failure threshold is exceeded the job raises and leaves the
\* output file as it was, absent or with its old content; the file changes
\* only when the job is accepted.
C30_RejectedJobLeavesFile ==
    [][/\ pc' = "Failed" => srt_file' = srt_file
       /\ srt_file' # srt_file =>
              /\ pc' = "Done"
              /\ 2 * FailedCount <= Len(chunk_log)]_vars

\* C30 witness: a rejected job that had a fragment to write and an old
\* document at the output path
C30_Witness ==
    /\ pc = "Failed"
    /\ results # <<>>
    /\ srt_file = OldSrt

----------------------------------------------------------------------------
(* Properties of the jobs of main.py (specifications SpecPipeline and      *)
(* SpecJobs).                                                              *)

\* C23: when two jobs run the recognition at the same time, the audio a job
\* sends for its chunk i is that job's own chunk i, never audio exported by
\* the other job.
C23_JobPostsOwnAudio ==
    \A r \in posted : r.audio = File(r.job, r.i)

\* C24: the final cleanup of a job removes only that job's own temporary
\* files: never a chunk file or an intermediate file that another running
\* job has written and has yet to read.
C24_CleanupTakesOwnFilesOnly ==
    \A r \in cleaned : r.owner = r.by

StepNames == {"mp3", "wav", "asr", "translate"}

IsStepEvent(e) == e[1] \in StepNames

\* what a job logged about its four steps
StepEvents(j) == SelectSeq(events[j], IsStepEvent)

\* the four steps, each begun after the one before it ended well
FourSteps ==
    <<Begun("mp3"), Ended("mp3"), Begun("wav"), Ended("wav"),
      Begun("asr"), Ended("asr"), Begun("translate"), Ended("translate")>>

\* C28: in both entry points the four steps run in the order video to MP3,
\* MP3 to WAV, recognition, translation; a step begins only after every
\* earlier step ended well; the translated file is returned only after all
\* four ended well; after a failure no step runs and no file is returned.
C28_StepsInOrder ==
    \A j \in DOMAIN upload :
        LET evs == StepEvents(j) IN
        /\ Len(evs) <= Len(FourSteps)
        /\ \A n \in 1..Len(evs) :
               \/ evs[n] = FourSteps[n]
               \/ /\ n = Len(evs)
                  /\ n % 2 = 0
                  /\ evs[n] = Broke(FourSteps[n][1])
        /\ returned[j] = "file" => evs = FourSteps
        /\ \A n \in 1..Len(events[j]) :
               events[j][n][2] \in {"fail", "exception"} =>
                   /\ returned[j] = "error"
                   /\ \A m \in (n + 1)..Len(events[j]) :
                          ~IsStepEvent(events[j][m])

\* C28 witness: a request to generate_subtitles_raw that got its file
C28_Witness ==
    /\ upload[1].kind = "api"
    /\ returned[1] = "file"
    /\ StepEvents(1) = FourSteps

----------------------------------------------------------------------------
(* Further properties of the stitcher (specification SpecStitch). *)

\* C31: every purely numeric line of a fragment is treated as a sequence
\* number, wherever it stands, also directly after another purely numeric
\* line: it is replaced by the index offset plus its value, and its value is
\* counted in the fragment's maximum.
C31_EveryNumericLineRenumbered ==
    \A n \in 1..Len(calls) :
        LET c == calls[n]
            lines == StripSplit(c.content)
        IN  ~c.ret.raised =>
                \A p \in 1..Len(lines) :
                    lines[p].k = "num" =>
                        /\ c.ret.text[p]
                               = NumLine(Digits(c.index + ToInt(lines[p].d)))
                        /\ c.ret.index >= c.index + ToInt(lines[p].d)

RECURSIVE WellFormedFrom(_, _, _)
\* lines p.. continue a valid subtitle document: cues of a number without
\* leading zero, a time range of two canonical timestamps and one or more
\* lines of text, each cue ended by a blank line
WellFormedFrom(lines, p, expect) ==
    IF p > Len(lines) THEN expect = "more"
    ELSE CASE expect = "num" ->
                  /\ lines[p].k = "num"
                  /\ ~lines[p].pad
                  /\ lines[p].d[1] # 0
                  /\ WellFormedFrom(lines, p + 1, "time")
           [] expect = "time" ->
                  /\ lines[p].k = "time"
                  /\ ~lines[p].pad
                  /\ Len(lines[p].parts) = 2
                  /\ IsCanonical(lines[p].parts[1])
                  /\ IsCanonical(lines[p].parts[2])
                  /\ WellFormedFrom(lines, p + 1, "text")
           [] expect = "text" ->
                  /\ lines[p].k \in {"text", "num"}
                  /\ WellFormedFrom(lines, p + 1, "more")
           [] expect = "more" ->
                  IF lines[p].k = "blank"
                  THEN WellFormedFrom(lines, p + 1, "num")
                  ELSE /\ lines[p].k \in {"text", "num"}
                       /\ WellFormedFrom(lines, p + 1, "more")

\* the fragment without the blank lines before and after it
Core(content) == DropTrailingBlank(DropLeadingBlank(content))

IsWellFormed(content) ==
    /\ Core(content) # <<>>
    /\ WellFormedFrom(Core(content), 1, "num")

\* C32: stitching with index offset 0 and time offset 0 is idempotent and
\* lossless: applied to its own output it returns the same text and index,
\* and of a well-formed fragment it returns every line of every cue (number,
\* timestamps, text) as it was, white space around a line apart, in the same
\* order.
C32_ZeroStitchLossless ==
    \A n \in 1..Len(calls) :
        LET c == calls[n] IN
        (c.index = 0 /\ c.time = 0 /\ ~c.ret.raised) =>
            /\ adjust_srt_timestamps(c.ret.text, 0, 0) = c.ret
            /\ IsWellFormed(c.content) =>
                   /\ Len(c.ret.text) = Len(Core(c.content)) + 1
                   /\ \A p \in 1..Len(Core(c.content)) :
                          c.ret.text[p] = Strip(Core(c.content)[p])

\* the fragment has no purely numeric line (no line of which isdigit() holds)
NoCue(content) ==
    \A p \in 1..Len(StripSplit(content)) :
        StripSplit(content)[p].k \notin {"num", "sup"}

\* C33: of a fragment that contains no cue (no purely numeric line) the
\* stitcher returns the text unchanged and the index offset unchanged.
C33_NoCuePassedThrough ==
    \A n \in 1..Len(calls) :
        NoCue(calls[n].content) =>
            /\ ~calls[n].ret.raised
            /\ calls[n].ret.text = calls[n].content
            /\ calls[n].ret.index = calls[n].index

----------------------------------------------------------------------------
(* A further property of the translation job (specification              *)
(* SpecTranslate).                                                         *)

\* a request was sent for the batch: by openai_chat_with_retry itself, or,
\* for an oversized batch, by translate_small_chunk for one of its groups
Sent(entry) ==
    /\ Processed(entry)
    /\ IF entry.groups = <<>> THEN MAX_RETRIES > 0
       ELSE \E g \in 1..Len(entry.groups) : entry.small[g].requests # <<>>

\* C34: a pause lies between every two consecutive batches: when a request
\* was sent for a batch, the batch handled before it was followed by the
\* pause, whether it was translated or ended in the fallback block; and no
\* pause follows the last batch.
C34_PauseBetweenBatches ==
    \A b \in 1..Len(batch_log) :
        /\ Sent(batch_log[b]) =>
               \A a \in 1..(b - 1) :
                   (/\ Processed(batch_log[a])
                    /\ \A m \in (a + 1)..(b - 1) : ~Processed(batch_log[m]))
                       => batch_log[a].paused
        /\ batch_log[b].step = total_steps - 1 => ~batch_log[b].paused

============================================================================
